---- MODULE Spec2Model ----
(***************************************************************************)
(* Model of the schema-inference and type-normalization core of            *)
(* lkb-octopus: the type model (core/Common.py, core/DataTypes), schema    *)
(* inference (core/DataTypes/Schema.py), promotion (core/DataTypes/Cast.py)*)
(* and the JSON / XML adapters (core/io/JSON.py, core/io/XML.py).          *)
(***************************************************************************)
EXTENDS Integers, Sequences, FiniteSets, TLC

VARIABLES
    types,          \* three types handed to the type-level operations
    compared,       \* result of types[1] == types[2]
    compatible,     \* results of is_compatible with either type as the receiver
    unified,        \* results of _unify_types
    promoted,       \* results of promote_types
    sample,         \* the value handed to infer_type / infer_schema
    inferredType,   \* result of infer_type(sample)
    inferredSchema, \* result of infer_schema(sample)
    recast,         \* result of cast_value(sample, infer_schema(sample))
    json_text,      \* the JSON text handed to from_json
    pc,             \* the last adapter call made on json_text
    canonical,      \* result of from_json(json_text)
    xml,            \* result of to_xml on the canonical value
    parsed,         \* result of from_xml(xml)
    json_out,       \* result of to_json on the value parsed from xml
    reserialized,   \* result of to_json on the canonical value
    reparsed,       \* result of from_json on the reserialized text
    arg,            \* the value handed directly to an operation
    xml_text,       \* the XML text handed directly to from_xml
    call,           \* the operation called on arg or xml_text
    returned,       \* what that call returned or raised
    fs,             \* the files, by path
    file_path,      \* the path handed to to_file or from_file
    cast_arg,       \* the value handed to cast_value
    target,         \* the target type handed to cast_value
    casted,         \* what cast_value(cast_arg, target) returned or raised
    registry,       \* Registry._registry: category -> insertion-ordered dict
    reg_call,       \* the last call on the registry or the converter, with its arguments
    reg_result,     \* what that call returned or raised
    calls,          \* the number of calls made since the import
    flat_data,      \* the data handed to NormalizeJSON.normalize
    flat_opts,      \* its flatten, sep and max_level arguments
    flattened       \* what NormalizeJSON.normalize returned or raised

typeVars == <<types, compared, compatible, unified, promoted>>

inferVars == <<sample, inferredType, inferredSchema, recast>>

pipeVars == <<json_text, pc, canonical, xml, parsed, json_out, reserialized, reparsed>>

callVars == <<arg, xml_text, call, returned, fs, file_path>>

castVars == <<cast_arg, target, casted>>

regVars == <<registry, reg_call, reg_result, calls>>

flatVars == <<flat_data, flat_opts, flattened>>

vars == <<typeVars, inferVars, pipeVars, callVars, castVars, regVars, flatVars>>

-----------------------------------------------------------------------------
(* Bounds of the model. *)

\* number of struct field names the type universe draws from
MaxKeys == 2

\* longest sequence value handed to inference
MaxLen == 3

\* longest list-valued field of the documents handed to the adapters
MaxItems == 2

\* longest sequence of records of the documents handed to the adapters
MaxRecords == 2

\* the number of calls on the registry and the converter
MaxCalls == 3

\* levels of nesting of the data handed to flattening
MaxDepth == 4

\* largest max_level handed to flattening
MaxLevel == 2

NoResult == [ok |-> FALSE, err |-> "not-run"]

Ok(v) == [ok |-> TRUE, val |-> v]

Raise(e) == [ok |-> FALSE, err |-> e]

-----------------------------------------------------------------------------
(* Python str values are sequences of one-character strings. *)

Digits == {"0", "1", "2", "3", "4", "5", "6", "7", "8", "9"}

DigitSeq == <<"0", "1", "2", "3", "4", "5", "6", "7", "8", "9">>

DigitVal(c) == (CHOOSE i \in 1..10 : DigitSeq[i] = c) - 1

UpperSeq == <<"A", "B", "C", "D", "E", "F", "G", "H", "I", "J", "K", "L", "M",
              "N", "O", "P", "Q", "R", "S", "T", "U", "V", "W", "X", "Y", "Z">>

LowerSeq == <<"a", "b", "c", "d", "e", "f", "g", "h", "i", "j", "k", "l", "m",
              "n", "o", "p", "q", "r", "s", "t", "u", "v", "w", "x", "y", "z">>

\* str.lower() on one character
LowerChar(c) ==
    IF \E i \in 1..26 : UpperSeq[i] = c
    THEN LowerSeq[CHOOSE i \in 1..26 : UpperSeq[i] = c]
    ELSE c

\* str.lower()
Lower(s) == [i \in 1..Len(s) |-> LowerChar(s[i])]

AllDigits(s) == \A i \in 1..Len(s) : s[i] \in Digits

\* value of a non-empty run of decimal digits
RECURSIVE DigitsToNat(_)
DigitsToNat(s) ==
    IF Len(s) = 0 THEN 0
    ELSE 10 * DigitsToNat(SubSeq(s, 1, Len(s) - 1)) + DigitVal(s[Len(s)])

RECURSIVE NatToStr(_)
NatToStr(n) ==
    IF n < 10 THEN <<DigitSeq[n + 1]>>
    ELSE NatToStr(n \div 10) \o <<DigitSeq[(n % 10) + 1]>>

\* str(int)
IntToStr(n) == IF n < 0 THEN <<"-">> \o NatToStr(0 - n) ELSE NatToStr(n)

\* str.strip(): drop leading and trailing whitespace
RECURSIVE LStrip(_)
LStrip(s) == IF Len(s) > 0 /\ s[1] = " " THEN LStrip(Tail(s)) ELSE s

RECURSIVE RStrip(_)
RStrip(s) ==
    IF Len(s) > 0 /\ s[Len(s)] = " " THEN RStrip(SubSeq(s, 1, Len(s) - 1)) ELSE s

Strip(s) == RStrip(LStrip(s))

\* first index >= i of s that does not hold a digit (Len(s)+1 if none)
RECURSIVE SkipDigits(_, _)
SkipDigits(s, i) ==
    IF i <= Len(s) /\ s[i] \in Digits THEN SkipDigits(s, i + 1) ELSE i

\* first index >= i of s that holds character c (Len(s)+1 if none)
RECURSIVE IndexOf(_, _, _)
IndexOf(s, c, i) ==
    IF i <= Len(s) /\ s[i] # c THEN IndexOf(s, c, i + 1) ELSE i

\* str.split(c)
RECURSIVE Split(_, _)
Split(s, c) ==
    LET j == IndexOf(s, c, 1)
    IN IF j > Len(s) THEN <<s>>
       ELSE <<SubSeq(s, 1, j - 1)>> \o Split(SubSeq(s, j + 1, Len(s)), c)

-----------------------------------------------------------------------------
(* SchemaHelper *)

\* SchemaHelper.is_integer: str.isdigit()
is_integer(s) == Len(s) > 0 /\ AllDigits(s)

\* the exponent part of a decimal literal: E, optional sign, digits
IsExponent(s) ==
    /\ Len(s) >= 2
    /\ LowerChar(s[1]) = "e"
    /\ LET d == IF s[2] \in {"+", "-"} THEN SubSeq(s, 3, Len(s))
                ELSE SubSeq(s, 2, Len(s))
       IN Len(d) > 0 /\ AllDigits(d)

\* digits with an optional fraction and an optional exponent
IsDecimalNumber(b) ==
    LET i1 == SkipDigits(b, 1)
        hasDot == i1 <= Len(b) /\ b[i1] = "."
        i2 == IF hasDot THEN SkipDigits(b, i1 + 1) ELSE i1
        intDigits == i1 - 1
        fracDigits == IF hasDot THEN i2 - i1 - 1 ELSE 0
        rest == SubSeq(b, i2, Len(b))
    IN /\ (intDigits > 0 \/ fracDigits > 0)
       /\ (Len(rest) = 0 \/ IsExponent(rest))

\* Inf, Infinity, NaN and sNaN with optional diagnostic digits
IsDecimalSpecial(b) ==
    LET l == Lower(b)
        n == IF Len(l) > 0 /\ l[1] = "s" THEN Tail(l) ELSE l
    IN \/ l = <<"i", "n", "f">>
       \/ l = <<"i", "n", "f", "i", "n", "i", "t", "y">>
       \/ /\ Len(n) >= 3
          /\ SubSeq(n, 1, 3) = <<"n", "a", "n">>
          /\ AllDigits(SubSeq(n, 4, Len(n)))

\* SchemaHelper.is_decimal: Decimal(value) does not raise InvalidOperation
is_decimal(s) ==
    LET t == SelectSeq(Strip(s), LAMBDA c : c # "_")
        b == IF Len(t) > 0 /\ t[1] \in {"+", "-"} THEN Tail(t) ELSE t
    IN IsDecimalNumber(b) \/ IsDecimalSpecial(b)

\* a strptime numeric field: one or two digits with a value in lo..hi
IsField(s, lo, hi) ==
    /\ Len(s) \in {1, 2}
    /\ AllDigits(s)
    /\ DigitsToNat(s) \in lo..hi

IsLeap(y) == (y % 4 = 0 /\ y % 100 # 0) \/ y % 400 = 0

DaysIn(y, m) ==
    IF m = 2 THEN (IF IsLeap(y) THEN 29 ELSE 28)
    ELSE IF m \in {4, 6, 9, 11} THEN 30 ELSE 31

\* strptime(value, "%Y-%m-%d") succeeds
IsDateText(s) ==
    LET p == Split(s, "-")
    IN /\ Len(p) = 3
       /\ Len(p[1]) = 4 /\ AllDigits(p[1]) /\ DigitsToNat(p[1]) >= 1
       /\ IsField(p[2], 1, 12)
       /\ LET d == IF Len(p[3]) = 2 /\ p[3][1] = " " THEN Tail(p[3]) ELSE p[3]
          IN /\ IsField(d, 1, 31)
             /\ DigitsToNat(d) <= DaysIn(DigitsToNat(p[1]), DigitsToNat(p[2]))

\* strptime(value, "%H:%M:%S") succeeds
IsTimeText(s) ==
    LET p == Split(s, ":")
    IN /\ Len(p) = 3
       /\ IsField(p[1], 0, 23)
       /\ IsField(p[2], 0, 59)
       /\ IsField(p[3], 0, 59)

\* strptime(value, "%Y-%m-%d %H:%M:%S") succeeds
IsDatetimeText(s) ==
    LET j == IndexOf(s, " ", 6)
    IN /\ j < Len(s)
       /\ IsDateText(SubSeq(s, 1, j - 1))
       /\ IsTimeText(LStrip(SubSeq(s, j + 1, Len(s))))

\* SchemaHelper.is_datetime
is_datetime(s) == IsDatetimeText(s) \/ IsDateText(s)

-----------------------------------------------------------------------------
(* The type model: one record per DataType instance, kind = its class. *)

NumericKinds == {"Integer", "Float", "Decimal"}

TemporalKinds == {"Date", "Datetime", "Time", "Duration"}

CategoricalKinds == {"Boolean", "String", "Binary", "Categorical"}

NullKinds == {"NestedNull", "NumericNull", "TemporalNull", "CategoricalNull"}

ScalarKinds == NumericKinds \cup TemporalKinds \cup CategoricalKinds \cup NullKinds

T(k) == [kind |-> k]

ListType(inner) == [kind |-> "List", inner_type |-> inner]

StructType(fields) == [kind |-> "Struct", fields |-> fields]

\* isinstance(t, (NumericNullType, TemporalNullType, CategoricalNullType,
\* NestedNullType)) in promote_types
IsNull(t) == t.kind \in NullKinds

\* a null_types list that leaves out the numeric Null
InNullTypesNoNumeric(t) == t.kind \in NullKinds \ {"NumericNull"}

\* t in null_types, the list built in _unify_types
InNullTypes(t) == t.kind \in NullKinds

\* DataType.__eq__: isinstance(other, type(self)); every class instantiated by
\* the engine is a leaf class or CategoricalType, for which Python's
\* reflected-operand rule makes == hold exactly when the classes are the same.
\* The inner type of a list and the fields of a struct are not compared.
TypeEq(a, b) == a.kind = b.kind

\* list(set(types)): __hash__ is the hash of the class name, so the set keeps
\* the first inserted instance of every class.
RECURSIVE Unique(_)
Unique(ts) ==
    IF Len(ts) = 0 THEN <<>>
    ELSE LET h == Unique(SubSeq(ts, 1, Len(ts) - 1))
             x == ts[Len(ts)]
         IN IF \E i \in 1..Len(h) : TypeEq(h[i], x) THEN h ELSE Append(h, x)

\* is_compatible, by the class of the receiver: a Null variant accepts every
\* type; a numeric, temporal or nested type accepts every type of its own
\* family; every other type accepts the instances of its own class, which
\* for CategoricalType includes Boolean, String and Binary.
IsCompatible(t, u) ==
    IF t.kind \in NullKinds THEN TRUE
    ELSE IF t.kind \in NumericKinds THEN u.kind \in NumericKinds
    ELSE IF t.kind \in TemporalKinds THEN u.kind \in TemporalKinds
    ELSE IF t.kind \in {"List", "Struct"} THEN u.kind \in {"List", "Struct"}
    ELSE IF t.kind = "Categorical" THEN u.kind \in CategoricalKinds
    ELSE u.kind = t.kind

RECURSIVE UnifyTypes(_)

\* a _unify_types whose last rule answers the first of the mixed types
UnifyTypesFirstOfMix(ts) ==
    LET unique_types == Unique(ts)
        non_null_types == SelectSeq(unique_types, LAMBDA t : ~InNullTypes(t))
    IN IF Len(unique_types) = 1 THEN unique_types[1]
       ELSE IF Len(non_null_types) = 1 THEN non_null_types[1]
       ELSE IF \A i \in 1..Len(unique_types) : unique_types[i].kind = "List"
       THEN LET inner_types ==
                    SelectSeq([i \in 1..Len(unique_types) |-> unique_types[i].inner_type],
                              LAMBDA t : t.kind # "NestedNull")
            IN ListType(IF Len(inner_types) > 0 THEN UnifyTypes(inner_types)
                        ELSE T("NestedNull"))
       ELSE IF \A i \in 1..Len(unique_types) : unique_types[i].kind = "Struct"
       THEN LET field_keys == UNION {DOMAIN unique_types[i].fields : i \in 1..Len(unique_types)}
                having(k) == SelectSeq(unique_types, LAMBDA t : k \in DOMAIN t.fields)
            IN StructType([k \in field_keys |->
                   UnifyTypes([i \in 1..Len(having(k)) |-> having(k)[i].fields[k]])])
       ELSE unique_types[1]

\* SchemaInference._unify_types
UnifyTypes(ts) ==
    LET unique_types == Unique(ts)
        non_null_types == SelectSeq(unique_types, LAMBDA t : ~InNullTypes(t))
    IN IF Len(unique_types) = 1 THEN unique_types[1]
       ELSE IF Len(non_null_types) = 1 THEN non_null_types[1]
       ELSE IF \A i \in 1..Len(unique_types) : unique_types[i].kind = "List"
       THEN LET inner_types ==
                    SelectSeq([i \in 1..Len(unique_types) |-> unique_types[i].inner_type],
                              LAMBDA t : t.kind # "NestedNull")
            IN ListType(IF Len(inner_types) > 0 THEN UnifyTypes(inner_types)
                        ELSE T("NestedNull"))
       ELSE IF \A i \in 1..Len(unique_types) : unique_types[i].kind = "Struct"
       THEN LET field_keys == UNION {DOMAIN unique_types[i].fields : i \in 1..Len(unique_types)}
                having(k) == SelectSeq(unique_types, LAMBDA t : k \in DOMAIN t.fields)
            IN StructType([k \in field_keys |->
                   UnifyTypes([i \in 1..Len(having(k)) |-> having(k)[i].fields[k]])])
       ELSE T("String")

RECURSIVE PromoteTypes(_, _)

\* promotion rules that answer the first operand for two numeric and for two
\* temporal types
PromoteNonNullFirstOperand(type1, type2) ==
    IF type1.kind \in NumericKinds /\ type2.kind \in NumericKinds THEN Ok(type1)
    ELSE IF type1.kind \in TemporalKinds /\ type2.kind \in TemporalKinds THEN Ok(type1)
    ELSE IF type1.kind \in CategoricalKinds /\ type2.kind \in CategoricalKinds
    THEN IF "String" \in {type1.kind, type2.kind} THEN Ok(T("String"))
         ELSE IF type1.kind = "Boolean" /\ type2.kind = "Boolean" THEN Ok(T("Boolean"))
         ELSE Ok(T("Categorical"))
    ELSE IF type1.kind = "List" /\ type2.kind = "List"
    THEN LET promoted_inner == PromoteTypes(type1.inner_type, type2.inner_type)
         IN IF promoted_inner.ok THEN Ok(ListType(promoted_inner.val))
            ELSE promoted_inner
    ELSE IF type1.kind = "Struct" /\ type2.kind = "Struct"
    THEN LET keys == DOMAIN type1.fields \cup DOMAIN type2.fields
             get(t, k) == IF k \in DOMAIN t.fields THEN t.fields[k] ELSE T("NestedNull")
             per == [k \in keys |-> PromoteTypes(get(type1, k), get(type2, k))]
         IN IF \A k \in keys : per[k].ok
            THEN Ok(StructType([k \in keys |-> per[k].val]))
            ELSE Raise("DataTypeError")
    ELSE Raise("DataTypeError")

\* TypeCast.promote_types, the rules that follow the handling of Null
PromoteNonNull(type1, type2) ==
    IF type1.kind \in NumericKinds /\ type2.kind \in NumericKinds
    THEN IF "Decimal" \in {type1.kind, type2.kind} THEN Ok(T("Decimal"))
         ELSE IF "Float" \in {type1.kind, type2.kind} THEN Ok(T("Float"))
         ELSE Ok(T("Integer"))
    ELSE IF type1.kind \in TemporalKinds /\ type2.kind \in TemporalKinds
    THEN IF "Duration" \in {type1.kind, type2.kind} THEN Ok(T("Duration"))
         ELSE IF "Datetime" \in {type1.kind, type2.kind} THEN Ok(T("Datetime"))
         ELSE IF "Date" \in {type1.kind, type2.kind} THEN Ok(T("Date"))
         ELSE Ok(T("Time"))
    ELSE IF type1.kind \in CategoricalKinds /\ type2.kind \in CategoricalKinds
    THEN IF "String" \in {type1.kind, type2.kind} THEN Ok(T("String"))
         ELSE IF type1.kind = "Boolean" /\ type2.kind = "Boolean" THEN Ok(T("Boolean"))
         ELSE Ok(T("Categorical"))
    ELSE IF type1.kind = "List" /\ type2.kind = "List"
    THEN LET promoted_inner == PromoteTypes(type1.inner_type, type2.inner_type)
         IN IF promoted_inner.ok THEN Ok(ListType(promoted_inner.val))
            ELSE promoted_inner
    ELSE IF type1.kind = "Struct" /\ type2.kind = "Struct"
    THEN LET keys == DOMAIN type1.fields \cup DOMAIN type2.fields
             get(t, k) == IF k \in DOMAIN t.fields THEN t.fields[k] ELSE T("NestedNull")
             per == [k \in keys |-> PromoteTypes(get(type1, k), get(type2, k))]
         IN IF \A k \in keys : per[k].ok
            THEN Ok(StructType([k \in keys |-> per[k].val]))
            ELSE Raise("DataTypeError")
    ELSE Raise("DataTypeError")

\* a promote_types that widens to String where no rule applies
PromoteTypesWidening(type1, type2) ==
    IF IsNull(type1) THEN Ok(type2)
    ELSE IF IsNull(type2) THEN Ok(type1)
    ELSE LET r == PromoteNonNull(type1, type2)
         IN IF r.ok THEN r ELSE Ok(T("String"))

\* promote_types without the test of type2 for Null
PromoteTypesLeftNullOnly(type1, type2) ==
    IF IsNull(type1) THEN Ok(type2)
    ELSE PromoteNonNull(type1, type2)

\* TypeCast.promote_types
PromoteTypes(type1, type2) ==
    IF IsNull(type1) THEN Ok(type2)
    ELSE IF IsNull(type2) THEN Ok(type1)
    ELSE PromoteNonNull(type1, type2)

-----------------------------------------------------------------------------
(* Values: the Python objects the engine works on, tagged by their class.  *)
(* A float is identified by its repr, a dict keeps its insertion order.    *)

PyNone == [t |-> "none"]

PyBool(b) == [t |-> "bool", b |-> b]

PyInt(n) == [t |-> "int", n |-> n]

PyFloat(r) == [t |-> "float", repr |-> r]

PyDec(r) == [t |-> "decimal", repr |-> r]

PyStr(s) == [t |-> "str", s |-> s]

PyDate(r) == [t |-> "date", repr |-> r]

PyDatetime(r) == [t |-> "datetime", repr |-> r]

PyList(es) == [t |-> "list", elems |-> es]

PyDict(kvs) == [t |-> "dict", items |-> kvs]

KV(k, v) == [k |-> k, v |-> v]

NaN == PyFloat(<<"n", "a", "n">>)

\* data != data, true of the float NaN only
IsNaN(v) == v.t = "float" /\ v.repr = <<"n", "a", "n">>

DictKeys(d) == {d.items[i].k : i \in 1..Len(d.items)}

\* d[k]
DictGet(d, k) == d.items[CHOOSE i \in 1..Len(d.items) : d.items[i].k = k].v

\* SchemaInference.infer_type
RECURSIVE InferType(_)
InferType(data) ==
    IF data.t = "none" THEN T("NestedNull")
    ELSE IF data.t = "bool" THEN T("Boolean")
    ELSE IF data.t = "int" THEN T("Integer")
    ELSE IF data.t = "float" THEN (IF IsNaN(data) THEN T("NumericNull") ELSE T("Float"))
    ELSE IF data.t = "decimal" THEN T("Decimal")
    ELSE IF data.t = "str"
    THEN IF is_integer(data.s) THEN T("Integer")
         ELSE IF is_decimal(data.s) THEN T("Decimal")
         ELSE IF is_datetime(data.s) THEN T("Datetime")
         ELSE T("String")
    ELSE IF data.t = "date" THEN T("Date")
    ELSE IF data.t = "datetime" THEN T("Datetime")
    ELSE IF data.t = "list"
    THEN ListType(UnifyTypes([i \in 1..Len(data.elems) |-> InferType(data.elems[i])]))
    ELSE StructType([k \in DictKeys(data) |-> InferType(DictGet(data, k))])

\* SchemaInference.infer_schema
RECURSIVE InferSchema(_)
InferSchema(data) ==
    IF data.t = "list"
    THEN IF Len(data.elems) = 0 THEN ListType(T("NestedNull"))
         ELSE ListType(UnifyTypes([i \in 1..Len(data.elems) |-> InferSchema(data.elems[i])]))
    ELSE IF data.t = "dict"
    THEN IF Len(data.items) = 0 THEN StructType(<<>>)
         ELSE StructType([k \in DictKeys(data) |-> InferSchema(DictGet(data, k))])
    ELSE InferType(data)

-----------------------------------------------------------------------------
(* Python built-ins the adapters rely on. *)

RECURSIVE Concat(_)
Concat(ss) == IF Len(ss) = 0 THEN <<>> ELSE Head(ss) \o Concat(Tail(ss))

\* ", ".join(parts)
RECURSIVE Join(_)
Join(parts) ==
    IF Len(parts) = 0 THEN <<>>
    ELSE IF Len(parts) = 1 THEN parts[1]
    ELSE parts[1] \o <<",", " ">> \o Join(Tail(parts))

\* the spelling of the field names used by the model
KeyChars(k) ==
    CASE k = "a" -> <<"a">>
      [] k = "b" -> <<"b">>
      [] k = "c" -> <<"c">>
      [] k = "root" -> <<"r", "o", "o", "t">>
      [] k = "item" -> <<"i", "t", "e", "m">>
      [] k = "name" -> <<"n", "a", "m", "e">>
      [] k = "tags" -> <<"t", "a", "g", "s">>
      [] k = "scores" -> <<"s", "c", "o", "r", "e", "s">>

\* not value: Python truthiness of the value classes of the model
Falsy(v) ==
    \/ v.t = "none"
    \/ v.t = "bool" /\ ~v.b
    \/ v.t = "int" /\ v.n = 0
    \/ v.t = "float" /\ v.repr \in {<<"0", ".", "0">>, <<"-", "0", ".", "0">>}
    \/ v.t = "decimal" /\ \A i \in 1..Len(v.repr) : v.repr[i] \in {"0", ".", "-"}
    \/ v.t = "str" /\ Len(v.s) = 0
    \/ v.t = "list" /\ Len(v.elems) = 0
    \/ v.t = "dict" /\ Len(v.items) = 0

\* repr(str): single quotes, double quotes when the string holds a single
\* quote and no double quote; the strings of the model need no escape
ReprOfStr(s) ==
    IF (\E i \in 1..Len(s) : s[i] = "'") /\ ~(\E i \in 1..Len(s) : s[i] = "\"")
    THEN <<"\"">> \o s \o <<"\"">>
    ELSE <<"'">> \o s \o <<"'">>

\* the arguments repr() shows for a date or a datetime: the fields as
\* integers, the seconds left out when they are zero
DateArgs(r) ==
    LET j == IndexOf(r, " ", 1)
        d == Split(SubSeq(r, 1, j - 1), "-")
        t == IF j > Len(r) THEN <<>> ELSE Split(SubSeq(r, j + 1, Len(r)), ":")
        shown == IF Len(t) = 3 /\ DigitsToNat(t[3]) = 0 THEN SubSeq(t, 1, 2) ELSE t
    IN Join([i \in 1..(3 + Len(shown)) |->
               NatToStr(DigitsToNat(IF i <= 3 THEN d[i] ELSE shown[i - 3]))])

\* repr(value)
RECURSIVE ReprOf(_)
ReprOf(v) ==
    IF v.t = "none" THEN <<"N", "o", "n", "e">>
    ELSE IF v.t = "bool"
    THEN (IF v.b THEN <<"T", "r", "u", "e">> ELSE <<"F", "a", "l", "s", "e">>)
    ELSE IF v.t = "int" THEN IntToStr(v.n)
    ELSE IF v.t = "str" THEN ReprOfStr(v.s)
    ELSE IF v.t = "list"
    THEN <<"[">> \o Join([i \in 1..Len(v.elems) |-> ReprOf(v.elems[i])]) \o <<"]">>
    ELSE IF v.t = "dict"
    THEN <<"{">>
         \o Join([i \in 1..Len(v.items) |->
                    <<"'">> \o KeyChars(v.items[i].k) \o <<"'", ":", " ">>
                    \o ReprOf(v.items[i].v)])
         \o <<"}">>
    ELSE IF v.t = "decimal"
    THEN <<"D", "e", "c", "i", "m", "a", "l", "(", "'">> \o v.repr \o <<"'", ")">>
    ELSE IF v.t = "date"
    THEN <<"d", "a", "t", "e", "t", "i", "m", "e", ".", "d", "a", "t", "e", "(">>
         \o DateArgs(v.repr) \o <<")">>
    ELSE IF v.t = "datetime"
    THEN <<"d", "a", "t", "e", "t", "i", "m", "e", ".",
           "d", "a", "t", "e", "t", "i", "m", "e", "(">>
         \o DateArgs(v.repr) \o <<")">>
    ELSE v.repr

\* str(value): a Decimal, a date and a datetime print their plain text form
StrOf(v) ==
    IF v.t = "str" THEN v.s
    ELSE IF v.t \in {"decimal", "date", "datetime"} THEN v.repr
    ELSE ReprOf(v)

\* (value or {}).items()
ItemsOf(v) ==
    IF Falsy(v) THEN Ok(<<>>)
    ELSE IF v.t = "dict" THEN Ok(v.items)
    ELSE Raise("AttributeError")

\* for item in value or []
IterOf(v) ==
    IF Falsy(v) THEN Ok(<<>>)
    ELSE IF v.t = "list" THEN Ok(v.elems)
    ELSE IF v.t = "str" THEN Ok([i \in 1..Len(v.s) |-> PyStr(<<v.s[i]>>)])
    ELSE IF v.t = "dict" THEN Ok([i \in 1..Len(v.items) |-> PyStr(KeyChars(v.items[i].k))])
    ELSE Raise("TypeError")

\* result[k] = v on an insertion-ordered dict
DictPut(items, k, v) ==
    IF \E i \in 1..Len(items) : items[i].k = k
    THEN [i \in 1..Len(items) |-> IF items[i].k = k THEN KV(k, v) ELSE items[i]]
    ELSE Append(items, KV(k, v))

\* schema.fields.get(key, NestedNullType())
FieldGet(schema, k) ==
    IF k \in DOMAIN schema.fields THEN schema.fields[k] ELSE T("NestedNull")

-----------------------------------------------------------------------------
(* The numeric constructors int(), float() and Decimal().                  *)

Zeros(n) == [i \in 1..n |-> "0"]

RECURSIVE StripLeadingZeros(_)
StripLeadingZeros(s) ==
    IF Len(s) > 0 /\ s[1] = "0" THEN StripLeadingZeros(Tail(s)) ELSE s

RECURSIVE StripTrailingZeros(_)
StripTrailingZeros(s) ==
    IF Len(s) > 0 /\ s[Len(s)] = "0"
    THEN StripTrailingZeros(SubSeq(s, 1, Len(s) - 1)) ELSE s

\* the sign of a numeric literal and the literal without it
SignOf(s) == IF Len(s) > 0 /\ s[1] = "-" THEN <<"-">> ELSE <<>>

Unsigned(s) == IF Len(s) > 0 /\ s[1] \in {"+", "-"} THEN Tail(s) ELSE s

\* an unsigned literal digits[.digits][e[sign]digits] taken apart: its
\* coefficient digits and its exponent once the fraction is folded into it
LiteralParts(b) ==
    LET i1 == SkipDigits(b, 1)
        hasDot == i1 <= Len(b) /\ b[i1] = "."
        i2 == IF hasDot THEN SkipDigits(b, i1 + 1) ELSE i1
        ip == SubSeq(b, 1, i1 - 1)
        fp == IF hasDot THEN SubSeq(b, i1 + 1, i2 - 1) ELSE <<>>
        e == SubSeq(b, i2 + 1, Len(b))
        ev == IF Len(e) = 0 THEN 0
              ELSE IF e[1] = "-" THEN 0 - DigitsToNat(Tail(e))
              ELSE DigitsToNat(Unsigned(e))
    IN [coeff |-> ip \o fp, exp |-> ev - Len(fp)]

\* the digits before and after the decimal point when the point stands
\* after the first dotplace digits of the coefficient
PointAt(coeff, dotplace) ==
    IF dotplace <= 0
    THEN [int |-> <<>>, frac |-> Zeros(0 - dotplace) \o coeff]
    ELSE IF dotplace >= Len(coeff)
    THEN [int |-> coeff \o Zeros(dotplace - Len(coeff)), frac |-> <<>>]
    ELSE [int |-> SubSeq(coeff, 1, dotplace),
          frac |-> SubSeq(coeff, dotplace + 1, Len(coeff))]

\* a str float() and int() accept after stripping: single underscores
\* between digits only
GoodUnderscores(s) ==
    \A i \in 1..Len(s) :
        s[i] = "_" => /\ i > 1 /\ i < Len(s)
                      /\ s[i - 1] \in Digits /\ s[i + 1] \in Digits

NoUnderscores(s) == SelectSeq(s, LAMBDA c : c # "_")

\* int(str): optional sign and digits, surrounding whitespace ignored
IsIntLiteral(s) ==
    LET b == Unsigned(Strip(s))
    IN GoodUnderscores(b) /\ Len(b) > 0 /\ AllDigits(NoUnderscores(b))

IntOfLiteral(s) ==
    LET t == Strip(s)
        n == DigitsToNat(NoUnderscores(Unsigned(t)))
    IN IF SignOf(t) = <<"-">> THEN 0 - n ELSE n

\* the integer part of the text form of a float or a Decimal, toward zero
TruncOf(r) ==
    LET p == LiteralParts(Unsigned(r))
        ds == PointAt(p.coeff, Len(p.coeff) + p.exp).int
        n == DigitsToNat(ds)
    IN IF SignOf(r) = <<"-">> THEN 0 - n ELSE n

IsNaNText(r) == Lower(Unsigned(r)) \in {<<"n", "a", "n">>, <<"s", "n", "a", "n">>}

IsInfText(r) ==
    Lower(Unsigned(r)) \in {<<"i", "n", "f">>, <<"i", "n", "f", "i", "n", "i", "t", "y">>}

\* int(value)
IntOf(v) ==
    IF v.t = "int" THEN Ok(v)
    ELSE IF v.t = "bool" THEN Ok(PyInt(IF v.b THEN 1 ELSE 0))
    ELSE IF v.t \in {"float", "decimal"}
    THEN IF IsNaNText(v.repr) THEN Raise("ValueError")
         ELSE IF IsInfText(v.repr) THEN Raise("OverflowError")
         ELSE Ok(PyInt(TruncOf(v.repr)))
    ELSE IF v.t = "str"
    THEN (IF IsIntLiteral(v.s) THEN Ok(PyInt(IntOfLiteral(v.s))) ELSE Raise("ValueError"))
    ELSE Raise("TypeError")

\* repr of the float a finite literal denotes; the literals of the model
\* have few digits and a magnitude that repr() writes without an exponent
FloatRepr(r) ==
    LET p == LiteralParts(Unsigned(r))
        d == PointAt(p.coeff, Len(p.coeff) + p.exp)
        ip == StripLeadingZeros(d.int)
        fp == StripTrailingZeros(d.frac)
    IN SignOf(r)
       \o (IF Len(ip) = 0 THEN <<"0">> ELSE ip)
       \o <<".">>
       \o (IF Len(fp) = 0 THEN <<"0">> ELSE fp)

\* float(str) accepts the str: a decimal literal, inf, infinity or nan
IsFloatLiteral(s) ==
    LET t == Strip(s)
        b == Unsigned(t)
    IN \/ GoodUnderscores(b) /\ IsDecimalNumber(NoUnderscores(b))
       \/ IsInfText(b)
       \/ Lower(b) = <<"n", "a", "n">>

FloatOfLiteral(s) ==
    LET t == Strip(s)
    IN IF Lower(Unsigned(t)) = <<"n", "a", "n">> THEN <<"n", "a", "n">>
       ELSE IF IsInfText(t) THEN SignOf(t) \o <<"i", "n", "f">>
       ELSE FloatRepr(NoUnderscores(t))

\* float(value)
FloatOf(v) ==
    IF v.t = "float" THEN Ok(v)
    ELSE IF v.t = "int" THEN Ok(PyFloat(IntToStr(v.n) \o <<".", "0">>))
    ELSE IF v.t = "bool" THEN Ok(PyFloat(IF v.b THEN <<"1", ".", "0">> ELSE <<"0", ".", "0">>))
    ELSE IF v.t = "decimal" THEN Ok(PyFloat(FloatOfLiteral(v.repr)))
    ELSE IF v.t = "str"
    THEN (IF IsFloatLiteral(v.s) THEN Ok(PyFloat(FloatOfLiteral(v.s))) ELSE Raise("ValueError"))
    ELSE Raise("TypeError")

\* str(Decimal(literal)) for a finite literal: the digits are kept, leading
\* zeros dropped, and the exponent is written when it is positive or the
\* number is smaller than 1e-6
DecimalText(r) ==
    LET p == LiteralParts(Unsigned(r))
        c == IF Len(StripLeadingZeros(p.coeff)) = 0 THEN <<"0">>
             ELSE StripLeadingZeros(p.coeff)
        left == Len(c) + p.exp
        dotplace == IF p.exp <= 0 /\ left > -6 THEN left ELSE 1
        d == PointAt(c, dotplace)
        e == left - dotplace
    IN SignOf(r)
       \o (IF Len(d.int) = 0 THEN <<"0">> ELSE d.int)
       \o (IF Len(d.frac) = 0 THEN <<>> ELSE <<".">> \o d.frac)
       \o (IF e = 0 THEN <<>>
           ELSE <<"E">> \o (IF e > 0 THEN <<"+">> ELSE <<>>) \o IntToStr(e))

DecimalOfLiteral(s) ==
    LET t == NoUnderscores(Strip(s))
        u == Lower(Unsigned(t))
    IN IF IsInfText(t) THEN SignOf(t) \o <<"I", "n", "f", "i", "n", "i", "t", "y">>
       ELSE IF Len(u) >= 3 /\ SubSeq(u, 1, 3) = <<"n", "a", "n">>
       THEN SignOf(t) \o <<"N", "a", "N">> \o StripLeadingZeros(SubSeq(u, 4, Len(u)))
       ELSE IF Len(u) >= 4 /\ SubSeq(u, 1, 4) = <<"s", "n", "a", "n">>
       THEN SignOf(t) \o <<"s", "N", "a", "N">> \o StripLeadingZeros(SubSeq(u, 5, Len(u)))
       ELSE DecimalText(t)

\* Decimal(float): the exact value of the float; the finite floats of the
\* model are multiples of a power of two, so their repr holds every digit
DecimalOfFloat(r) ==
    IF IsNaNText(r) THEN <<"N", "a", "N">>
    ELSE IF IsInfText(r) THEN SignOf(r) \o <<"I", "n", "f", "i", "n", "i", "t", "y">>
    ELSE LET p == LiteralParts(Unsigned(r))
             d == PointAt(p.coeff, Len(p.coeff) + p.exp)
             fp == StripTrailingZeros(d.frac)
         IN SignOf(r) \o d.int \o (IF Len(fp) = 0 THEN <<>> ELSE <<".">> \o fp)

\* a sequence Decimal() reads as (sign, digits, exponent)
IsDecimalTriple(v) ==
    /\ v.t = "list" /\ Len(v.elems) = 3
    /\ v.elems[1].t = "int" /\ v.elems[1].n \in {0, 1}
    /\ v.elems[2].t = "list"
    /\ \A i \in 1..Len(v.elems[2].elems) :
          v.elems[2].elems[i].t = "int" /\ v.elems[2].elems[i].n \in 0..9
    /\ v.elems[3].t = "int"

DecimalOfTriple(v) ==
    LET ds == [i \in 1..Len(v.elems[2].elems) |-> DigitSeq[v.elems[2].elems[i].n + 1]]
    IN DecimalText((IF v.elems[1].n = 1 THEN <<"-">> ELSE <<>>)
                   \o (IF Len(ds) = 0 THEN <<"0">> ELSE ds)
                   \o <<"e">> \o IntToStr(v.elems[3].n))

\* Decimal(value)
DecimalOf(v) ==
    IF v.t = "decimal" THEN Ok(v)
    ELSE IF v.t = "int" THEN Ok(PyDec(IntToStr(v.n)))
    ELSE IF v.t = "bool" THEN Ok(PyDec(IF v.b THEN <<"1">> ELSE <<"0">>))
    ELSE IF v.t = "float" THEN Ok(PyDec(DecimalOfFloat(v.repr)))
    ELSE IF v.t = "str"
    THEN (IF is_decimal(v.s) THEN Ok(PyDec(DecimalOfLiteral(v.s)))
          ELSE Raise("InvalidOperation"))
    ELSE IF v.t = "list"
    THEN (IF IsDecimalTriple(v) THEN Ok(PyDec(DecimalOfTriple(v))) ELSE Raise("ValueError"))
    ELSE Raise("TypeError")

-----------------------------------------------------------------------------
(* TypeCast.cast_value (core/DataTypes/Cast.py) *)

\* a number below 100 written with two digits
Pad2(n) == <<DigitSeq[(n \div 10) + 1], DigitSeq[(n % 10) + 1]>>

\* str() of the date strptime(value, "%Y-%m-%d") returns
DateOfText(s) ==
    LET p == Split(s, "-")
    IN p[1] \o <<"-">> \o Pad2(DigitsToNat(p[2])) \o <<"-">> \o Pad2(DigitsToNat(LStrip(p[3])))

\* str() of the datetime strptime(value, "%Y-%m-%d %H:%M:%S") returns
DatetimeOfText(s) ==
    LET j == IndexOf(s, " ", 6)
        t == Split(LStrip(SubSeq(s, j + 1, Len(s))), ":")
    IN DateOfText(SubSeq(s, 1, j - 1)) \o <<" ">>
       \o Pad2(DigitsToNat(t[1])) \o <<":">> \o Pad2(DigitsToNat(t[2]))
       \o <<":">> \o Pad2(DigitsToNat(t[3]))

\* the keys of a struct type in the order its fields were inserted: the
\* struct types of the model are built in this order
FieldOrder(fields) ==
    SelectSeq(<<"a", "b", "c", "root", "item", "name", "tags", "scores">>,
              LAMBDA k : k \in DOMAIN fields)

\* value.get(key, None)
DictGetOrNone(d, k) == IF k \in DictKeys(d) THEN DictGet(d, k) ELSE PyNone

\* the outcome of a comprehension over calls that may raise: the first
\* error in evaluation order, or all the values
FirstFailure(rs) ==
    IF \E i \in 1..Len(rs) : ~rs[i].ok
    THEN rs[CHOOSE i \in 1..Len(rs) : ~rs[i].ok /\ \A j \in 1..(i - 1) : rs[j].ok]
    ELSE Ok([i \in 1..Len(rs) |-> rs[i].val])

\* TypeCast.cast_value
RECURSIVE cast_value(_, _)
cast_value(value, target_type) ==
    IF value.t = "none"
    THEN IF target_type.kind \in NumericKinds \cup TemporalKinds \cup CategoricalKinds
                                   \cup {"List", "Struct"}
         THEN Ok(PyNone)
         ELSE Raise("ConversionError")
    ELSE IF target_type.kind = "Integer" THEN IntOf(value)
    ELSE IF target_type.kind = "Float" THEN FloatOf(value)
    ELSE IF target_type.kind = "Decimal" THEN DecimalOf(value)
    ELSE IF target_type.kind = "Boolean"
    THEN IF value.t = "str" /\ Lower(value.s) \in {<<"t", "r", "u", "e">>, <<"1">>}
         THEN Ok(PyBool(TRUE))
         ELSE IF value.t = "str" /\ Lower(value.s) \in {<<"f", "a", "l", "s", "e">>, <<"0">>}
         THEN Ok(PyBool(FALSE))
         ELSE Ok(PyBool(~Falsy(value)))
    ELSE IF target_type.kind = "String" THEN Ok(PyStr(StrOf(value)))
    ELSE IF target_type.kind = "Date"
    THEN IF value.t # "str" THEN Raise("TypeError")
         ELSE IF IsDateText(value.s) THEN Ok(PyDate(DateOfText(value.s)))
         ELSE Raise("ValueError")
    ELSE IF target_type.kind = "Datetime"
    THEN IF value.t # "str" THEN Raise("TypeError")
         ELSE IF IsDatetimeText(value.s) THEN Ok(PyDatetime(DatetimeOfText(value.s)))
         ELSE Raise("ValueError")
    ELSE IF target_type.kind = "List"
    THEN IF value.t # "list" THEN Raise("ConversionError")
         ELSE LET rs == FirstFailure([i \in 1..Len(value.elems) |->
                          cast_value(value.elems[i], target_type.inner_type)])
              IN IF rs.ok THEN Ok(PyList(rs.val)) ELSE rs
    ELSE IF target_type.kind = "Struct"
    THEN IF value.t # "dict" THEN Raise("ConversionError")
         ELSE LET ks == FieldOrder(target_type.fields)
                  rs == FirstFailure([i \in 1..Len(ks) |->
                          cast_value(DictGetOrNone(value, ks[i]), target_type.fields[ks[i]])])
              IN IF rs.ok THEN Ok(PyDict([i \in 1..Len(ks) |-> KV(ks[i], rs.val[i])]))
                 ELSE rs
    ELSE Raise("ConversionError")

-----------------------------------------------------------------------------
(* The json codec. A JSON text is the sequence of its tokens.              *)

Tok(k) == [tok |-> k]

Lit(v) == [tok |-> "lit", v |-> v]

Key(k) == [tok |-> "key", k |-> k]

\* the classes json.dumps can serialize
RECURSIVE JsonSerializable(_)
JsonSerializable(v) ==
    IF v.t = "list" THEN \A i \in 1..Len(v.elems) : JsonSerializable(v.elems[i])
    ELSE IF v.t = "dict" THEN \A i \in 1..Len(v.items) : JsonSerializable(v.items[i].v)
    ELSE v.t \in {"none", "bool", "int", "float", "str"}

\* json.dumps
RECURSIVE JsonDumps(_)
JsonDumps(v) ==
    IF v.t = "list"
    THEN <<Tok("[")>> \o Concat([i \in 1..Len(v.elems) |-> JsonDumps(v.elems[i])])
         \o <<Tok("]")>>
    ELSE IF v.t = "dict"
    THEN <<Tok("{")>>
         \o Concat([i \in 1..Len(v.items) |->
                      <<Key(v.items[i].k)>> \o JsonDumps(v.items[i].v)])
         \o <<Tok("}")>>
    ELSE <<Lit(v)>>

BadParse == [ok |-> FALSE, val |-> PyNone, rest |-> <<>>]

Parsed(v, rest) == [ok |-> TRUE, val |-> v, rest |-> rest]

RECURSIVE JsonParseValue(_), JsonParseElems(_, _), JsonParseMembers(_, _)
JsonParseValue(toks) ==
    IF Len(toks) = 0 THEN BadParse
    ELSE IF toks[1].tok = "lit" THEN Parsed(toks[1].v, Tail(toks))
    ELSE IF toks[1].tok = "[" THEN JsonParseElems(Tail(toks), <<>>)
    ELSE IF toks[1].tok = "{" THEN JsonParseMembers(Tail(toks), <<>>)
    ELSE BadParse

JsonParseElems(toks, acc) ==
    IF Len(toks) = 0 THEN BadParse
    ELSE IF toks[1].tok = "]" THEN Parsed(PyList(acc), Tail(toks))
    ELSE LET r == JsonParseValue(toks)
         IN IF r.ok THEN JsonParseElems(r.rest, Append(acc, r.val)) ELSE BadParse

JsonParseMembers(toks, acc) ==
    IF Len(toks) = 0 THEN BadParse
    ELSE IF toks[1].tok = "}" THEN Parsed(PyDict(acc), Tail(toks))
    ELSE IF toks[1].tok = "key"
    THEN LET r == JsonParseValue(Tail(toks))
         IN IF r.ok THEN JsonParseMembers(r.rest, DictPut(acc, toks[1].k, r.val))
            ELSE BadParse
    ELSE BadParse

\* json.loads
JsonLoads(text) ==
    LET r == JsonParseValue(text)
    IN IF r.ok /\ Len(r.rest) = 0 THEN Ok(r.val) ELSE Raise("JSONDecodeError")

-----------------------------------------------------------------------------
(* xml.etree.ElementTree. An element has a tag, a text (None or a str) and *)
(* children; an XML text is the sequence of its tokens.                    *)

Elem(tag, text, children) == [tag |-> tag, text |-> text, children |-> children]

Open(tag) == [tok |-> "open", tag |-> tag]

Close(tag) == [tok |-> "close", tag |-> tag]

Empty(tag) == [tok |-> "empty", tag |-> tag]

Text(s) == [tok |-> "text", s |-> s]

\* ET.tostring(root, encoding="unicode"): an element with neither text nor
\* children is written as <tag />
RECURSIVE ETtostring(_)
ETtostring(e) ==
    IF ~Falsy(e.text) \/ Len(e.children) > 0
    THEN <<Open(e.tag)>>
         \o (IF ~Falsy(e.text) THEN <<Text(e.text.s)>> ELSE <<>>)
         \o Concat([i \in 1..Len(e.children) |-> ETtostring(e.children[i])])
         \o <<Close(e.tag)>>
    ELSE <<Empty(e.tag)>>

RECURSIVE XmlParseElement(_), XmlParseChildren(_, _, _, _)
XmlParseElement(toks) ==
    IF Len(toks) = 0 THEN BadParse
    ELSE IF toks[1].tok = "empty" THEN Parsed(Elem(toks[1].tag, PyNone, <<>>), Tail(toks))
    ELSE IF toks[1].tok = "open"
    THEN IF Len(toks) > 1 /\ toks[2].tok = "text"
         THEN XmlParseChildren(Tail(Tail(toks)), toks[1].tag, PyStr(toks[2].s), <<>>)
         ELSE XmlParseChildren(Tail(toks), toks[1].tag, PyNone, <<>>)
    ELSE BadParse

XmlParseChildren(toks, tag, text, acc) ==
    IF Len(toks) = 0 THEN BadParse
    ELSE IF toks[1].tok = "close"
    THEN (IF toks[1].tag = tag THEN Parsed(Elem(tag, text, acc), Tail(toks)) ELSE BadParse)
    ELSE LET r == XmlParseElement(toks)
         IN IF r.ok THEN XmlParseChildren(r.rest, tag, text, Append(acc, r.val))
            ELSE BadParse

\* ET.fromstring
ETfromstring(text) ==
    LET r == XmlParseElement(text)
    IN IF r.ok /\ Len(r.rest) = 0 THEN Ok(r.val) ELSE Raise("ParseError")

-----------------------------------------------------------------------------
(* Normalization (core/utility/Normalize.py) *)

\* Normalization.normalize_json; a str payload is handed to json.loads, which
\* rejects the str payloads of the model ("x" and the empty string)
normalize_json(data) ==
    IF data.t \in {"dict", "list"} THEN Ok(data)
    ELSE Raise("NormalizationError")

\* a normalize_list that lets every sequence through
normalize_list_any_sequence(data) ==
    IF data.t = "dict" THEN Ok(PyList(<<data>>))
    ELSE IF data.t = "list" THEN Ok(data)
    ELSE Raise("NormalizationError")

\* Normalization.normalize_list
normalize_list(data) ==
    IF data.t = "dict" THEN Ok(PyList(<<data>>))
    ELSE IF data.t = "list" /\ \A i \in 1..Len(data.elems) : data.elems[i].t = "dict"
    THEN Ok(data)
    ELSE Raise("NormalizationError")

\* a normalize_input that wraps every list of records under root
normalize_input_always_wrap(data) ==
    IF data.t = "dict" THEN Ok(data)
    ELSE IF data.t = "list"
    THEN IF Len(data.elems) = 0 \/ data.elems[1].t # "dict"
         THEN Raise("NormalizationError")
         ELSE Ok(PyDict(<<KV("root", data)>>))
    ELSE Raise("NormalizationError")

\* Normalization.normalize_input
normalize_input(data) ==
    IF data.t = "dict" THEN Ok(data)
    ELSE IF data.t = "list"
    THEN IF Len(data.elems) = 0 \/ data.elems[1].t # "dict"
         THEN Raise("NormalizationError")
         ELSE IF Len(data.elems) = 1 /\ Len(data.elems[1].items) = 1
         THEN Ok(data.elems[1])
         ELSE Ok(PyDict(<<KV("root", data)>>))
    ELSE Raise("NormalizationError")

\* ABCNormalizer.normalize_input of core/NormalizerBase.py
ABCNormalizerNormalizeInput(data) ==
    IF data.t = "dict" THEN Ok(PyList(<<data>>))
    ELSE IF data.t = "list" /\ \A i \in 1..Len(data.elems) : data.elems[i].t = "dict"
    THEN Ok(data)
    ELSE Raise("ValueError")

-----------------------------------------------------------------------------
(* flatten_structure (core/io/normalize/NormalizeUtils.py) and             *)
(* NormalizeJSON.normalize. The keys of the data handed to them are        *)
(* sequences of characters; opt holds the sep, max_level and               *)
(* lowercase_keys of the enclosing call.                                   *)

\* dict.update(more) and dict(more) on insertion-ordered items
RECURSIVE DictUpdate(_, _)
DictUpdate(items, more) ==
    IF Len(more) = 0 THEN items
    ELSE DictUpdate(DictPut(items, more[1].k, more[1].v), Tail(more))

RECURSIVE flatten_dict(_, _, _, _), flatten_list(_, _, _, _)
RECURSIVE FlattenStack(_, _, _), FlattenItems(_, _, _, _, _), FlattenElems(_, _, _, _, _, _)

\* the for loop of flatten_dict over the items of the entry popped from the
\* stack, from the i-th on; gives the stack and the items after the loop
FlattenItems(cur, i, stack, items, opt) ==
    IF i > Len(cur.value.items) THEN [stack |-> stack, items |-> items]
    ELSE LET k == cur.value.items[i].k
             v == cur.value.items[i].v
             joined == IF Len(cur.key) > 0 THEN cur.key \o opt.sep \o k ELSE k
             new_key == IF opt.lowercase_keys THEN Lower(joined) ELSE joined
         IN IF v.t = "dict" /\ (opt.max_level.t = "none" \/ cur.level < opt.max_level.n)
            THEN FlattenItems(cur, i + 1,
                              Append(stack, [key |-> new_key, value |-> v,
                                             level |-> cur.level + 1]),
                              items, opt)
            ELSE IF v.t = "list"
            THEN FlattenItems(cur, i + 1, stack,
                              items \o flatten_list(v, new_key, cur.level + 1, opt).items,
                              opt)
            ELSE FlattenItems(cur, i + 1, stack, Append(items, KV(new_key, v)), opt)

\* the while loop of flatten_dict: the last entry of the stack is popped
FlattenStack(stack, items, opt) ==
    IF Len(stack) = 0 THEN items
    ELSE LET r == FlattenItems(stack[Len(stack)], 1,
                               SubSeq(stack, 1, Len(stack) - 1), items, opt)
         IN FlattenStack(r.stack, r.items, opt)

\* flatten_dict: the stack starts at level 0 whatever level was passed
flatten_dict(d, parent_key, level, opt) ==
    PyDict(DictUpdate(<<>>,
                      FlattenStack(<<[key |-> parent_key, value |-> d, level |-> 0]>>,
                                   <<>>, opt)))

\* the for loop of flatten_list from the i-th element on
FlattenElems(elems, i, parent_key, level, items, opt) ==
    IF i > Len(elems) THEN items
    ELSE LET item == elems[i]
             new_key == parent_key \o opt.sep \o NatToStr(i - 1)
         IN IF item.t = "dict"
            THEN FlattenElems(elems, i + 1, parent_key, level,
                              DictUpdate(items, flatten_dict(item, new_key, level + 1, opt).items),
                              opt)
            ELSE IF item.t = "list"
            THEN FlattenElems(elems, i + 1, parent_key, level,
                              DictUpdate(items, flatten_list(item, new_key, level + 1, opt).items),
                              opt)
            ELSE FlattenElems(elems, i + 1, parent_key, level,
                              DictPut(items, new_key, item), opt)

flatten_list(l, parent_key, level, opt) ==
    PyDict(FlattenElems(l.elems, 1, parent_key, level, <<>>, opt))

\* flatten_structure; an element of a list that is no dict has no items()
flatten_structure(data, parent_key, sep, max_level, lowercase_keys) ==
    LET opt == [sep |-> sep, max_level |-> max_level, lowercase_keys |-> lowercase_keys]
    IN IF data.t = "list"
       THEN IF \A i \in 1..Len(data.elems) : data.elems[i].t = "dict"
            THEN Ok(PyList([i \in 1..Len(data.elems) |->
                               flatten_dict(data.elems[i], parent_key, 0, opt)]))
            ELSE Raise("AttributeError")
       ELSE IF data.t = "dict" THEN Ok(flatten_dict(data, parent_key, 0, opt))
       ELSE Raise("ValueError")

\* NormalizeJSON.normalize; a str payload is handed to json.loads, which
\* rejects the str payloads of the model ("x" and the empty string)
NormalizeJSONnormalize(data, flatten, sep, max_level) ==
    IF flatten
    THEN LET r == flatten_structure(data, <<>>, sep, max_level, TRUE)
         IN IF r.ok THEN r ELSE Raise("NormalizationError")
    ELSE IF data.t = "dict" THEN Ok(PyList(<<data>>))
    ELSE IF data.t = "list" /\ \A i \in 1..Len(data.elems) : data.elems[i].t = "dict"
    THEN Ok(data)
    ELSE Raise("NormalizationError")

-----------------------------------------------------------------------------
(* JSONAdapter (core/io/JSON.py) *)

\* JSONAdapter.normalize_input
JsonNormalizeInput(data) ==
    LET j == normalize_json(data)
        l == normalize_list(j.val)
        n == normalize_input(l.val)
    IN IF ~j.ok THEN Raise("ConversionError")
       ELSE IF ~l.ok THEN Raise("ConversionError")
       ELSE IF ~n.ok THEN Raise("ConversionError")
       ELSE n

\* JSONAdapter.from_json
FromJson(json_data) ==
    LET parsed_data == JsonLoads(json_data)
        normalized_data == JsonNormalizeInput(parsed_data.val)
    IN IF ~parsed_data.ok THEN Raise("ConversionError")
       ELSE IF ~normalized_data.ok THEN Raise("ConversionError")
       ELSE Ok([data |-> normalized_data.val,
                schema |-> InferSchema(normalized_data.val)])

\* JSONAdapter.to_json
ToJson(data) ==
    LET normalized_data == JsonNormalizeInput(data)
    IN IF ~normalized_data.ok THEN Raise("ConversionError")
       ELSE IF ~JsonSerializable(normalized_data.val) THEN Raise("ConversionError")
       ELSE Ok([text |-> JsonDumps(normalized_data.val),
                schema |-> InferSchema(normalized_data.val)])

\* a path holds a file with a text, a directory, nothing, or lies in a
\* directory that does not exist
NoFile == [kind |-> "missing"]

Directory == [kind |-> "dir"]

NoParent == [kind |-> "noparent"]

File(text) == [kind |-> "file", text |-> text]

\* open(file_path, 'r') followed by file.read()
OpenRead(files, path) ==
    IF files[path].kind = "file" THEN Ok(files[path].text)
    ELSE IF files[path].kind = "dir" THEN Raise("IsADirectoryError")
    ELSE Raise("FileNotFoundError")

\* open(file_path, 'w') followed by file.write(text): the files afterwards
OpenWrite(files, path, text) ==
    IF files[path].kind = "dir" THEN Raise("IsADirectoryError")
    ELSE IF files[path].kind = "noparent" THEN Raise("FileNotFoundError")
    ELSE Ok([files EXCEPT ![path] = File(text)])

\* a to_file that opens the file for writing before it serializes the data
ToFileOpenFirst(files, data, path) ==
    LET w == OpenWrite(files, path, <<>>)
        j == ToJson(data)
    IN IF ~w.ok THEN [returned |-> Raise("ConversionError"), fs |-> files]
       ELSE IF ~j.ok THEN [returned |-> Raise("ConversionError"), fs |-> w.val]
       ELSE [returned |-> Ok(j.val.schema),
             fs |-> OpenWrite(files, path, j.val.text).val]

\* JSONAdapter.to_file: what it returns or raises, and the files afterwards
ToFile(files, data, path) ==
    LET j == ToJson(data)
        w == OpenWrite(files, path, j.val.text)
    IN IF ~j.ok THEN [returned |-> Raise("ConversionError"), fs |-> files]
       ELSE IF ~w.ok THEN [returned |-> Raise("ConversionError"), fs |-> files]
       ELSE [returned |-> Ok(j.val.schema), fs |-> w.val]

\* JSONAdapter.from_file
FromFile(files, path) ==
    LET r == OpenRead(files, path)
    IN IF ~r.ok THEN Raise("ConversionError")
       ELSE FromJson(r.val)

-----------------------------------------------------------------------------
(* JsonIO (core/io/json_io.py) *)

\* JsonIO.to_json: normalize_input, then from_normalized
JsonIOToJson(data) ==
    LET normalized_data == NormalizeJSONnormalize(data, FALSE, <<"_">>, PyNone)
    IN IF ~normalized_data.ok THEN Raise("ConversionError")
       ELSE IF Falsy(normalized_data.val) THEN Ok(<<Tok("["), Tok("]")>>)
       ELSE IF ~JsonSerializable(normalized_data.val) THEN Raise("ConversionError")
       ELSE Ok(JsonDumps(normalized_data.val))

\* JsonIO.to_file: what it returns or raises, and the files afterwards
JsonIOToFile(files, data, path) ==
    LET j == JsonIOToJson(data)
        w == OpenWrite(files, path, j.val)
    IN IF path = "" THEN [returned |-> Raise("ConversionError"), fs |-> files]
       ELSE IF ~j.ok THEN [returned |-> Raise("ConversionError"), fs |-> files]
       ELSE IF ~w.ok THEN [returned |-> Raise("ConversionError"), fs |-> files]
       ELSE [returned |-> Ok(PyNone), fs |-> w.val]

-----------------------------------------------------------------------------
(* XMLAdapter (core/io/XML.py) *)

\* XMLAdapter.normalize_input
XmlNormalizeInput(data) ==
    LET j == normalize_json(data)
    IN IF ~j.ok THEN Raise("ConversionError")
       ELSE IF j.val.t = "dict" THEN j
       ELSE IF Len(j.val.elems) = 1 /\ j.val.elems[1].t = "dict" THEN Ok(j.val.elems[1])
       ELSE Ok(PyDict(<<KV("root", j.val)>>))

\* the schema handed down for the elements of a list
ItemSchema(schema) ==
    IF schema.inner_type.kind = "Struct" THEN schema.inner_type ELSE T("NestedNull")

\* XMLAdapter.to_xml.build_element: the element appended to the parent
RECURSIVE BuildElement(_, _, _)
BuildElement(key, value, schema) ==
    IF schema.kind = "Struct"
    THEN LET it == ItemsOf(value)
             subs == [i \in 1..Len(it.val) |->
                        BuildElement(it.val[i].k, it.val[i].v, FieldGet(schema, it.val[i].k))]
         IN IF ~it.ok THEN Raise("ConversionError")
            ELSE IF \E i \in 1..Len(subs) : ~subs[i].ok THEN Raise("ConversionError")
            ELSE Ok(Elem(key, PyNone, [i \in 1..Len(subs) |-> subs[i].val]))
    ELSE IF schema.kind = "List"
    THEN LET it == IterOf(value)
             subs == [i \in 1..Len(it.val) |->
                        BuildElement("item", it.val[i], ItemSchema(schema))]
         IN IF ~it.ok THEN Raise("ConversionError")
            ELSE IF \E i \in 1..Len(subs) : ~subs[i].ok THEN Raise("ConversionError")
            ELSE Ok(Elem(key, PyNone,
                         [i \in 1..Len(subs) |-> Elem("item", PyNone, <<subs[i].val>>)]))
    ELSE IF schema.kind = "NestedNull" THEN Ok(Elem(key, PyStr(<<>>), <<>>))
    ELSE Ok(Elem(key, PyStr(StrOf(value)), <<>>))

\* the fields of one record of a list-valued root, built under its item wrapper
BuildRecord(item, item_schema) ==
    LET it == ItemsOf(item)
        field_schema(k) ==
            IF item_schema.kind = "Struct" THEN FieldGet(item_schema, k)
            ELSE T("NestedNull")
        subs == [i \in 1..Len(it.val) |->
                   BuildElement(it.val[i].k, it.val[i].v, field_schema(it.val[i].k))]
    IN IF ~it.ok THEN Raise("ConversionError")
       ELSE IF \E i \in 1..Len(subs) : ~subs[i].ok THEN Raise("ConversionError")
       ELSE Ok(Elem("item", PyNone, [i \in 1..Len(subs) |-> subs[i].val]))

\* XMLAdapter.to_xml
ToXml(data) ==
    LET normalized_data == XmlNormalizeInput(data)
        nd == normalized_data.val
        schema == InferSchema(nd)
        root_key == nd.items[1].k
        root_value == nd.items[1].v
        root_schema == FieldGet(schema, root_key)
    IN IF ~normalized_data.ok THEN Raise("ConversionError")
       ELSE IF Len(nd.items) = 0 THEN Raise("ConversionError")
       ELSE IF root_schema.kind = "NestedNull" THEN Raise("ConversionError")
       ELSE IF root_schema.kind = "List"
       THEN LET it == IterOf(root_value)
                subs == [i \in 1..Len(it.val) |->
                           BuildRecord(it.val[i], ItemSchema(root_schema))]
            IN IF ~it.ok THEN Raise("ConversionError")
               ELSE IF \E i \in 1..Len(subs) : ~subs[i].ok THEN Raise("ConversionError")
               ELSE Ok(ETtostring(Elem(root_key, PyNone,
                                       [i \in 1..Len(subs) |-> subs[i].val])))
       ELSE IF root_schema.kind = "Struct"
       THEN LET subs == [i \in 1..Len(root_value.items) |->
                           BuildElement(root_value.items[i].k, root_value.items[i].v,
                                        FieldGet(root_schema, root_value.items[i].k))]
            IN IF \E i \in 1..Len(subs) : ~subs[i].ok THEN Raise("ConversionError")
               ELSE Ok(ETtostring(Elem(root_key, PyNone,
                                       [i \in 1..Len(subs) |-> subs[i].val])))
       ELSE Raise("ConversionError")

\* XMLAdapter.from_xml.parse_element
RECURSIVE ParseElement(_), ParseChildren(_, _)
ParseElement(element) ==
    IF Len(element.children) = 0
    THEN (IF ~Falsy(element.text) THEN PyStr(Strip(element.text.s)) ELSE PyNone)
    ELSE PyDict(ParseChildren(element.children, <<>>))

\* the loop over the children of an element, result being the dict built so far
ParseChildren(children, result) ==
    IF Len(children) = 0 THEN result
    ELSE LET child == Head(children)
             parsed_child == ParseElement(child)
             seen == \E i \in 1..Len(result) : result[i].k = child.tag
             old == DictGet(PyDict(result), child.tag)
             asList == IF old.t = "list" THEN old ELSE PyList(<<old>>)
         IN IF seen
            THEN ParseChildren(Tail(children),
                     DictPut(result, child.tag, PyList(Append(asList.elems, parsed_child))))
            ELSE ParseChildren(Tail(children), DictPut(result, child.tag, parsed_child))

\* XMLAdapter.from_xml
FromXml(xml_data) ==
    LET root == ETfromstring(xml_data)
        parsed_data ==
            PyDict(<<KV(root.val.tag,
                        PyList([i \in 1..Len(root.val.children) |->
                                  ParseElement(root.val.children[i])]))>>)
        normalized_data == XmlNormalizeInput(parsed_data)
    IN IF ~root.ok THEN Raise("ConversionError")
       ELSE IF ~normalized_data.ok THEN Raise("ConversionError")
       ELSE Ok([data |-> normalized_data.val,
                schema |-> InferSchema(normalized_data.val)])

-----------------------------------------------------------------------------
(* Registry (core/utility/AdapterRegistry.py) and Converter                *)
(* (core/Adapters/Converters.py). A component is the JSONAdapter class,    *)
(* the XMLAdapter class or any other object.                               *)

\* Registry.register: the registry afterwards
RegistryRegister(reg, name, component, category) ==
    LET withCategory ==
            IF category \notin DOMAIN reg THEN reg @@ (category :> <<>>) ELSE reg
    IN [withCategory EXCEPT ![category] = DictPut(@, name, component)]

\* Registry.get
RegistryGet(reg, name, category) ==
    IF category \notin DOMAIN reg \/ name \notin DictKeys(PyDict(reg[category]))
    THEN Raise("ValueError")
    ELSE Ok(DictGet(PyDict(reg[category]), name))

\* Registry.list_components
RegistryListComponents(reg, category) ==
    IF category \in DOMAIN reg
    THEN [i \in 1..Len(reg[category]) |-> reg[category][i].k]
    ELSE <<>>

\* the module function register(): the registry afterwards
RegisterAdapters(reg) ==
    RegistryRegister(RegistryRegister(reg, "JSON", "JSONAdapter", "adapters"),
                     "XML", "XMLAdapter", "adapters")

\* Converter.xml_to_json
XmlToJson(reg, xml_data) ==
    LET x == RegistryGet(reg, "XML", "adapters")
        j == RegistryGet(reg, "JSON", "adapters")
        data == FromXml(xml_data)
        json == ToJson(data.val.data)
    IN IF ~x.ok \/ x.val # "XMLAdapter" THEN Raise("ConversionError")
       ELSE IF ~data.ok THEN Raise("ConversionError")
       ELSE IF ~j.ok \/ j.val # "JSONAdapter" THEN Raise("ConversionError")
       ELSE IF ~json.ok THEN Raise("ConversionError")
       ELSE JsonLoads(json.val.text)

\* Converter.json_to_xml; json_data is a value or a JSON text
JsonToXml(reg, json_data) ==
    LET j == RegistryGet(reg, "JSON", "adapters")
        x == RegistryGet(reg, "XML", "adapters")
        normalized_data ==
            IF json_data.kind = "value" /\ json_data.v.t \in {"list", "dict"}
            THEN JsonNormalizeInput(json_data.v)
            ELSE IF json_data.kind = "text"
            THEN LET r == FromJson(json_data.text)
                 IN IF r.ok THEN Ok(r.val.data) ELSE r
            ELSE Raise("ConversionError")
    IN IF ~j.ok \/ j.val # "JSONAdapter" THEN Raise("ConversionError")
       ELSE IF ~normalized_data.ok THEN Raise("ConversionError")
       ELSE IF ~x.ok \/ x.val # "XMLAdapter" THEN Raise("ConversionError")
       ELSE ToXml(normalized_data.val)

-----------------------------------------------------------------------------
(* The bounded universe of types. *)

KeyNames == <<"a", "b", "c">>

Keys == {KeyNames[i] : i \in 1..MaxKeys}

ScalarTypes == {T(k) : k \in ScalarKinds}

InnerTypes == {T("Integer"), T("String"), T("NestedNull")}

FieldTypes == {T("Integer"), T("String")}

StructTypes ==
    UNION {{StructType(f) : f \in [ks -> FieldTypes]} : ks \in SUBSET Keys}

ListTypes == {ListType(t) : t \in InnerTypes}

TypeUniverse == ScalarTypes \cup ListTypes \cup StructTypes

-----------------------------------------------------------------------------
(* The bounded universe of values handed to inference. *)

StrSamples ==
    {<<"4", "2">>, <<"-", "4", "2">>, <<"+", "7">>, <<"3", ".", "1", "4">>,
     <<"1", "e", "5">>, <<"N", "a", "N">>, <<" ", "4", "2">>, <<>>,
     <<"h", "e", "l", "l", "o">>, <<"x">>, <<"1", "2", "-", "3">>,
     <<"2", "0", "2", "4", "-", "0", "1", "-", "0", "1">>,
     <<"2", "0", "2", "4", "-", "0", "2", "-", "3", "0">>,
     <<"2", "0", "2", "4", "-", "0", "1", "-", "0", "1", " ",
       "1", "0", ":", "3", "0", ":", "0", "0">>,
     <<"2", "0", "2", "4", "-", "0", "1", "-", "0", "1", " ",
       "2", "5", ":", "3", "0", ":", "0", "0">>,
     <<"0", "7", ":", "3", "0", ":", "0", "0">>}

ScalarValues ==
    {PyNone, PyBool(TRUE), PyBool(FALSE), PyInt(0), PyInt(42), PyInt(-7), NaN,
     PyFloat(<<"3", ".", "1", "4">>), PyDec(<<"1", ".", "5">>),
     PyDate(<<"2", "0", "2", "4", "-", "0", "1", "-", "0", "1">>),
     PyDatetime(<<"2", "0", "2", "4", "-", "0", "1", "-", "0", "1", " ",
                  "0", "0", ":", "0", "0", ":", "0", "0">>)}
    \cup {PyStr(s) : s \in StrSamples}

\* the elements of the sequences handed to inference
ElementValues ==
    {PyNone, NaN, PyInt(1), PyInt(2), PyStr(<<"x">>), PyBool(TRUE),
     PyList(<<>>), PyList(<<PyInt(1)>>), PyList(<<PyStr(<<"x">>)>>),
     PyDict(<<>>), PyDict(<<KV("a", PyInt(1))>>), PyDict(<<KV("b", PyStr(<<"x">>))>>),
     PyDict(<<KV("a", PyStr(<<"x">>))>>),
     PyDict(<<KV("a", PyInt(1)), KV("b", PyStr(<<"x">>))>>)}

SeqsUpTo(S, n) == UNION {[1..m -> S] : m \in 0..n}

ValueUniverse ==
    ScalarValues \cup ElementValues
    \cup {PyList(es) : es \in SeqsUpTo(ElementValues, MaxLen)}

-----------------------------------------------------------------------------
(* The bounded universe of JSON documents handed to the adapters. *)

ItemScalars == {PyInt(1), PyStr(<<"x">>), PyStr(<<"y">>)}

ItemLists == {PyList(es) : es \in SeqsUpTo(ItemScalars, MaxItems)}

FieldValues ==
    {PyInt(1), PyStr(<<"A", "n", "n">>), PyBool(TRUE), PyNone,
     PyDict(<<KV("b", PyInt(1))>>)}
    \cup ItemLists

KeySeqs == {<<>>, <<"a">>, <<"tags">>, <<"a", "tags">>, <<"tags", "a">>}

Objects ==
    UNION {{PyDict([i \in 1..Len(ks) |-> KV(ks[i], f[i])]) :
              f \in [1..Len(ks) -> FieldValues]} : ks \in KeySeqs}

Records ==
    {PyDict(<<KV("a", PyInt(1))>>), PyDict(<<KV("b", PyStr(<<"x">>))>>),
     PyDict(<<KV("a", PyList(<<PyInt(1), PyStr(<<"x">>)>>))>>),
     PyDict(<<KV("a", PyStr(<<"x", "y">>)), KV("b", PyBool(TRUE))>>),
     PyDict(<<KV("a", PyDict(<<KV("b", PyNone)>>))>>)}

AnnDoc ==
    PyDict(<<KV("name", PyStr(<<"A", "n", "n">>)),
             KV("scores", PyList(<<PyInt(1), PyInt(2), PyInt(3)>>))>>)

TagsDoc ==
    PyDict(<<KV("root",
                PyDict(<<KV("a", PyInt(1)),
                         KV("tags", PyList(<<PyStr(<<"x">>), PyStr(<<"y">>)>>))>>))>>)

Documents ==
    Objects
    \cup {PyDict(<<KV("root", o)>>) : o \in Objects}
    \cup {PyList(rs) : rs \in SeqsUpTo(Records, MaxRecords)}
    \cup {AnnDoc, TagsDoc, PyInt(5), PyList(<<PyInt(1)>>)}

\* texts json.loads rejects
MalformedTexts == {<<>>, <<Tok("{")>>, <<Tok("["), Lit(PyInt(1))>>}

JsonTexts == {JsonDumps(d) : d \in Documents} \cup MalformedTexts

-----------------------------------------------------------------------------
(* The values and texts handed directly to single operations. *)

TopValues ==
    {PyInt(1), PyNone, PyDict(<<>>), PyList(<<>>),
     PyDict(<<KV("c", PyInt(1))>>),
     PyList(<<PyDict(<<KV("c", PyInt(1))>>)>>),
     PyList(<<PyInt(1), PyInt(2)>>)}

DirectMappings ==
    {PyDict(<<>>)}
    \cup {PyDict(<<KV(k, v)>>) : k \in {"a", "b"}, v \in TopValues}
    \cup {PyDict(<<KV(k[1], v), KV(k[2], w)>>) :
             k \in {<<"a", "b">>, <<"b", "a">>}, v \in TopValues, w \in TopValues}

DirectSequences ==
    {PyList(ms) : ms \in SeqsUpTo(Records, MaxRecords)}
    \cup {PyList(<<PyInt(1), PyInt(2)>>), PyList(<<PyList(<<PyInt(1)>>)>>),
          PyList(<<PyInt(0), PyInt(0)>>),
          PyList(<<PyDict(<<KV("a", PyInt(1))>>), PyInt(5)>>),
          PyList(<<PyInt(5), PyDict(<<KV("a", PyInt(1))>>)>>)}

DirectScalars ==
    {PyInt(5), PyNone, PyBool(TRUE), PyStr(<<"x">>), PyStr(<<>>),
     PyFloat(<<"3", ".", "1", "4">>)}

DirectInputs == DirectMappings \cup DirectSequences \cup DirectScalars

\* XML texts: well-formed ones and ones ET.fromstring rejects
XmlTexts ==
    {<<Empty("a")>>,
     <<Open("a"), Text(<<"1">>), Close("a")>>,
     <<Open("a"), Empty("b"), Empty("b"), Close("a")>>,
     <<Open("a"), Open("b"), Text(<<" ", "x", " ">>), Close("b"), Empty("c"), Close("a")>>,
     <<>>,
     <<Open("a")>>,
     <<Open("a"), Close("b")>>,
     <<Empty("a"), Empty("b")>>,
     <<Text(<<"x">>)>>}

\* the paths handed to to_file and from_file
Paths == {"data.json", "dir", "nodir/data.json"}

\* what "data.json" holds at the start: nothing, a malformed text, a scalar
\* document, a document
FileSystems ==
    {[p \in Paths |-> IF p = "dir" THEN Directory
                      ELSE IF p = "nodir/data.json" THEN NoParent
                      ELSE f] :
        f \in {NoFile, File(<<Tok("{")>>), File(JsonDumps(PyInt(5))), File(JsonDumps(AnnDoc))}}

-----------------------------------------------------------------------------
(* The names, categories and components handed to the registry, and the    *)
(* inputs handed to the converter.                                         *)

RegNames == {"JSON", "XML"}

RegCategories == {"adapters", "general"}

Components == {"JSONAdapter", "XMLAdapter", "other"}

ConverterXmlTexts ==
    {<<Open("a"), Empty("b"), Empty("b"), Close("a")>>, <<Open("a")>>}

ConverterJsonInputs ==
    {[kind |-> "value", v |-> TagsDoc], [kind |-> "value", v |-> PyInt(5)],
     [kind |-> "text", text |-> JsonDumps(TagsDoc)],
     [kind |-> "text", text |-> <<Tok("{")>>]}

-----------------------------------------------------------------------------
(* The values and target types handed to cast_value. *)

CastStrings ==
    {<<"4", "2">>, <<"-", "4", "2">>, <<" ", "7", " ">>, <<"3", ".", "1", "4">>,
     <<"n", "o", "t", "-", "a", "-", "n", "u", "m", "b", "e", "r">>, <<>>,
     <<"t", "r", "u", "e">>, <<"T", "R", "U", "E">>, <<"0">>, <<"n", "o">>,
     <<"2", "0", "2", "4", "-", "0", "1", "-", "0", "1">>,
     <<"2", "0", "2", "4", "-", "1", "3", "-", "0", "1">>,
     <<"2", "0", "2", "4", "-", "1", "-", "5", " ", "7", ":", "3", "0", ":", "0", "0">>,
     <<"0", "7", ":", "3", "0", ":", "0", "0">>}

CastScalars ==
    {PyNone, PyBool(TRUE), PyBool(FALSE), PyInt(0), PyInt(42), PyInt(-7),
     PyFloat(<<"1", ".", "5">>), NaN, PyDec(<<"1", ".", "5", "0">>),
     PyDate(<<"2", "0", "2", "4", "-", "0", "1", "-", "0", "1">>)}
    \cup {PyStr(s) : s \in CastStrings}

CastSequences ==
    {PyList(<<>>), PyList(<<PyStr(<<"1">>), PyStr(<<"2">>)>>),
     PyList(<<PyStr(<<"1">>), PyStr(<<"x">>)>>), PyList(<<PyInt(1), PyNone>>),
     PyList(<<PyList(<<>>), PyStr(<<"x">>)>>)}

CastMappings ==
    {PyDict(<<>>), PyDict(<<KV("a", PyStr(<<"1">>))>>), PyDict(<<KV("a", PyStr(<<"x">>))>>),
     PyDict(<<KV("b", PyStr(<<"2">>))>>), PyDict(<<KV("a", PyNone)>>),
     PyDict(<<KV("b", PyStr(<<"2">>)), KV("a", PyStr(<<"1">>))>>),
     PyDict(<<KV("a", PyList(<<>>)), KV("b", PyStr(<<"x">>))>>)}

CastValues == CastScalars \cup CastSequences \cup CastMappings

\* the field types of the struct targets
CastFieldTypes ==
    ScalarTypes \cup {ListType(T("Integer")), StructType(<<>>),
                      StructType([k \in {"a"} |-> T("Integer")])}

CastTargets ==
    ScalarTypes \cup ListTypes \cup {ListType(StructType(<<>>))}
    \cup {StructType(<<>>)}
    \cup {StructType([k \in {"a"} |-> t]) : t \in CastFieldTypes}
    \cup {StructType([k \in {"a", "b"} |-> IF k = "a" THEN T("Integer") ELSE t]) :
             t \in CastFieldTypes}

-----------------------------------------------------------------------------
(* The parts of the state a specification leaves alone. *)

TypesIdle ==
    /\ types = <<>>
    /\ compared = NoResult
    /\ compatible = NoResult
    /\ unified = NoResult
    /\ promoted = NoResult

InferIdle ==
    /\ sample = PyNone
    /\ inferredType = NoResult
    /\ inferredSchema = NoResult
    /\ recast = NoResult

PipeIdle ==
    /\ json_text = <<>>
    /\ pc = "idle"
    /\ canonical = NoResult
    /\ xml = NoResult
    /\ parsed = NoResult
    /\ json_out = NoResult
    /\ reserialized = NoResult
    /\ reparsed = NoResult

CallIdle ==
    /\ arg = PyNone
    /\ xml_text = <<>>
    /\ call = "idle"
    /\ returned = NoResult
    /\ fs = [p \in Paths |-> NoFile]
    /\ file_path = ""

CastIdle ==
    /\ cast_arg = PyNone
    /\ target = T("NestedNull")
    /\ casted = NoResult

RegIdle ==
    /\ registry = <<>>
    /\ reg_call = [op |-> "idle"]
    /\ reg_result = NoResult
    /\ calls = 0

FlatIdle ==
    /\ flat_data = PyNone
    /\ flat_opts = <<>>
    /\ flattened = NoResult

-----------------------------------------------------------------------------
(* Specification of the type-level operations: Init draws three types,     *)
(* the actions apply ==, _unify_types and promote_types to them.           *)

TypesInit ==
    /\ types \in [1..3 -> TypeUniverse]
    /\ compared = NoResult
    /\ compatible = NoResult
    /\ unified = NoResult
    /\ promoted = NoResult
    /\ InferIdle
    /\ PipeIdle
    /\ CallIdle
    /\ CastIdle
    /\ RegIdle
    /\ FlatIdle

\* types[1] == types[2]
Compare ==
    /\ compared = NoResult
    /\ compatible = NoResult
    /\ compared' = Ok(TypeEq(types[1], types[2]))
    /\ UNCHANGED <<types, compatible, unified, promoted, inferVars, pipeVars, callVars, castVars, regVars, flatVars>>

\* _unify_types applied to the pair, the reversed pair and both groupings
Unify ==
    /\ unified = NoResult
    /\ unified' =
         [ok |-> TRUE,
          ab |-> UnifyTypes(<<types[1], types[2]>>),
          ba |-> UnifyTypes(<<types[2], types[1]>>),
          ab_c |-> UnifyTypes(<<UnifyTypes(<<types[1], types[2]>>), types[3]>>),
          a_bc |-> UnifyTypes(<<types[1], UnifyTypes(<<types[2], types[3]>>)>>),
          abc |-> UnifyTypes(<<types[1], types[2], types[3]>>)]
    /\ UNCHANGED <<types, compared, compatible, promoted, inferVars, pipeVars, callVars, castVars, regVars, flatVars>>

\* promote_types(types[1], types[2]) and promote_types(types[2], types[1])
Promote ==
    /\ promoted = NoResult
    /\ promoted' =
         [ok |-> TRUE,
          ab |-> PromoteTypes(types[1], types[2]),
          ba |-> PromoteTypes(types[2], types[1])]
    /\ UNCHANGED <<types, compared, compatible, unified, inferVars, pipeVars, callVars, castVars, regVars, flatVars>>

\* types[1].is_compatible(types[2]) and types[2].is_compatible(types[1])
is_compatible ==
    /\ compatible = NoResult
    /\ compatible' =
         [ok |-> TRUE,
          ab |-> IsCompatible(types[1], types[2]),
          ba |-> IsCompatible(types[2], types[1])]
    /\ UNCHANGED <<types, compared, unified, promoted, inferVars, pipeVars, callVars, castVars, regVars, flatVars>>

TypesNext == Compare \/ is_compatible \/ Unify \/ Promote

TypesSpec == TypesInit /\ [][TypesNext]_vars

-----------------------------------------------------------------------------
(* Specification of inference: Init draws a value, the actions apply       *)
(* infer_type and infer_schema to it.                                      *)

InferInit ==
    /\ sample \in ValueUniverse
    /\ inferredType = NoResult
    /\ inferredSchema = NoResult
    /\ recast = NoResult
    /\ TypesIdle
    /\ PipeIdle
    /\ CallIdle
    /\ CastIdle
    /\ RegIdle
    /\ FlatIdle

infer_type ==
    /\ inferredType = NoResult
    /\ inferredType' = Ok(InferType(sample))
    /\ UNCHANGED <<sample, inferredSchema, recast, typeVars, pipeVars, callVars, castVars, regVars, flatVars>>

infer_schema ==
    /\ inferredSchema = NoResult
    /\ inferredSchema' = Ok(InferSchema(sample))
    /\ UNCHANGED <<sample, inferredType, recast, typeVars, pipeVars, callVars, castVars, regVars, flatVars>>

\* TypeCast.cast_value(sample, schema), schema being what infer_schema
\* returned for sample
cast_inferred ==
    /\ inferredSchema.ok
    /\ recast = NoResult
    /\ recast' = cast_value(sample, inferredSchema.val)
    /\ UNCHANGED <<sample, inferredType, inferredSchema, typeVars, pipeVars, callVars, castVars, regVars, flatVars>>

InferNext == infer_type \/ infer_schema \/ cast_inferred

InferSpec == InferInit /\ [][InferNext]_vars

-----------------------------------------------------------------------------
(* Specification of the adapters: Init draws a JSON text, the actions run  *)
(* the chain from_json, to_xml, from_xml, to_json on it; a call that       *)
(* raises ends the chain.                                                  *)

PipeInit ==
    /\ json_text \in JsonTexts
    /\ pc = "start"
    /\ canonical = NoResult
    /\ xml = NoResult
    /\ parsed = NoResult
    /\ json_out = NoResult
    /\ reserialized = NoResult
    /\ reparsed = NoResult
    /\ TypesIdle
    /\ InferIdle
    /\ CallIdle
    /\ CastIdle
    /\ RegIdle
    /\ FlatIdle

from_json ==
    /\ pc = "start"
    /\ canonical' = FromJson(json_text)
    /\ pc' = "from_json"
    /\ UNCHANGED <<json_text, xml, parsed, json_out, reserialized, reparsed, typeVars, inferVars, callVars, castVars, regVars, flatVars>>

to_xml ==
    /\ pc = "from_json"
    /\ canonical.ok
    /\ xml' = ToXml(canonical.val.data)
    /\ pc' = "to_xml"
    /\ UNCHANGED <<json_text, canonical, parsed, json_out, reserialized, reparsed, typeVars, inferVars, callVars, castVars, regVars, flatVars>>

from_xml ==
    /\ pc = "to_xml"
    /\ xml.ok
    /\ parsed' = FromXml(xml.val)
    /\ pc' = "from_xml"
    /\ UNCHANGED <<json_text, canonical, xml, json_out, reserialized, reparsed, typeVars, inferVars, callVars, castVars, regVars, flatVars>>

to_json ==
    /\ pc = "from_xml"
    /\ parsed.ok
    /\ json_out' = ToJson(parsed.val.data)
    /\ pc' = "to_json"
    /\ UNCHANGED <<json_text, canonical, xml, parsed, reserialized, reparsed, typeVars, inferVars, callVars, castVars, regVars, flatVars>>

\* to_json on the canonical value from_json returned
reserialize ==
    /\ pc = "from_json"
    /\ canonical.ok
    /\ reserialized' = ToJson(canonical.val.data)
    /\ pc' = "reserialize"
    /\ UNCHANGED <<json_text, canonical, xml, parsed, json_out, reparsed, typeVars, inferVars, callVars, castVars, regVars, flatVars>>

\* from_json on the text to_json produced for the canonical value
reparse ==
    /\ pc = "reserialize"
    /\ reserialized.ok
    /\ reparsed' = FromJson(reserialized.val.text)
    /\ pc' = "reparse"
    /\ UNCHANGED <<json_text, canonical, xml, parsed, json_out, reserialized, typeVars, inferVars, callVars, castVars, regVars, flatVars>>

PipeNext == from_json \/ to_xml \/ from_xml \/ to_json \/ reserialize \/ reparse

PipeSpec == PipeInit /\ [][PipeNext]_vars

-----------------------------------------------------------------------------
(* Specification of single calls: Init draws a value and an XML text, each *)
(* action calls one operation on them and records what it returned or      *)
(* raised.                                                                 *)

CallInit ==
    /\ arg \in DirectInputs
    /\ xml_text \in XmlTexts
    /\ call = "none"
    /\ returned = NoResult
    /\ fs \in FileSystems
    /\ file_path = ""
    /\ TypesIdle
    /\ InferIdle
    /\ PipeIdle
    /\ CastIdle
    /\ RegIdle
    /\ FlatIdle

\* XMLAdapter.to_xml(arg)
call_to_xml ==
    /\ call = "none"
    /\ call' = "to_xml"
    /\ returned' = ToXml(arg)
    /\ UNCHANGED <<arg, xml_text, fs, file_path, typeVars, inferVars, pipeVars, castVars, regVars, flatVars>>

\* JSONAdapter.to_json(arg)
call_to_json ==
    /\ call = "none"
    /\ call' = "to_json"
    /\ returned' = ToJson(arg)
    /\ UNCHANGED <<arg, xml_text, fs, file_path, typeVars, inferVars, pipeVars, castVars, regVars, flatVars>>

\* XMLAdapter.from_xml(xml_text)
call_from_xml ==
    /\ call = "none"
    /\ call' = "from_xml"
    /\ returned' = FromXml(xml_text)
    /\ UNCHANGED <<arg, xml_text, fs, file_path, typeVars, inferVars, pipeVars, castVars, regVars, flatVars>>

\* Normalization.normalize_list(arg)
call_normalize_list ==
    /\ call = "none"
    /\ call' = "normalize_list"
    /\ returned' = normalize_list(arg)
    /\ UNCHANGED <<arg, xml_text, fs, file_path, typeVars, inferVars, pipeVars, castVars, regVars, flatVars>>

\* ABCNormalizer.normalize_input(arg)
call_abc_normalize_input ==
    /\ call = "none"
    /\ call' = "ABCNormalizer.normalize_input"
    /\ returned' = ABCNormalizerNormalizeInput(arg)
    /\ UNCHANGED <<arg, xml_text, fs, file_path, typeVars, inferVars, pipeVars, castVars, regVars, flatVars>>

\* JSONAdapter.normalize_input(arg)
call_json_normalize_input ==
    /\ call = "none"
    /\ call' = "JSONAdapter.normalize_input"
    /\ returned' = JsonNormalizeInput(arg)
    /\ UNCHANGED <<arg, xml_text, fs, file_path, typeVars, inferVars, pipeVars, castVars, regVars, flatVars>>

\* JSONAdapter.to_file(arg, path)
call_to_file ==
    \E path \in Paths :
        /\ call = "none"
        /\ call' = "to_file"
        /\ file_path' = path
        /\ returned' = ToFile(fs, arg, path).returned
        /\ fs' = ToFile(fs, arg, path).fs
        /\ UNCHANGED <<arg, xml_text, typeVars, inferVars, pipeVars, castVars, regVars, flatVars>>

\* JsonIO.to_file(arg, path)
call_jsonio_to_file ==
    \E path \in Paths :
        /\ call = "none"
        /\ call' = "JsonIO.to_file"
        /\ file_path' = path
        /\ returned' = JsonIOToFile(fs, arg, path).returned
        /\ fs' = JsonIOToFile(fs, arg, path).fs
        /\ UNCHANGED <<arg, xml_text, typeVars, inferVars, pipeVars, castVars, regVars, flatVars>>

\* JSONAdapter.from_file(path)
call_from_file ==
    \E path \in Paths :
        /\ call = "none"
        /\ call' = "from_file"
        /\ file_path' = path
        /\ returned' = FromFile(fs, path)
        /\ UNCHANGED <<arg, xml_text, fs, typeVars, inferVars, pipeVars, castVars, regVars, flatVars>>

CallNext ==
    \/ call_to_file
    \/ call_jsonio_to_file
    \/ call_from_file
    \/ call_to_xml
    \/ call_to_json
    \/ call_from_xml
    \/ call_normalize_list
    \/ call_abc_normalize_input
    \/ call_json_normalize_input

CallSpec == CallInit /\ [][CallNext]_vars

-----------------------------------------------------------------------------
(* Specification of casting: Init draws a value and a target type, the     *)
(* action applies cast_value to them.                                      *)

CastInit ==
    /\ cast_arg \in CastValues
    /\ target \in CastTargets
    /\ casted = NoResult
    /\ TypesIdle
    /\ InferIdle
    /\ PipeIdle
    /\ CallIdle
    /\ RegIdle
    /\ FlatIdle

\* TypeCast.cast_value(cast_arg, target)
Cast ==
    /\ casted = NoResult
    /\ casted' = cast_value(cast_arg, target)
    /\ UNCHANGED <<cast_arg, target, typeVars, inferVars, pipeVars, callVars, regVars, flatVars>>

CastNext == Cast

CastSpec == CastInit /\ [][CastNext]_vars

-----------------------------------------------------------------------------
(* Specification of flattening: Init draws nested data of up to MaxDepth   *)
(* levels and the arguments of NormalizeJSON.normalize, the action calls   *)
(* it.                                                                     *)

\* the values nested at most n levels deep
RECURSIVE NestedValues(_)
NestedValues(n) ==
    IF n = 0 THEN {PyInt(1)}
    ELSE LET below == NestedValues(n - 1)
         IN below
            \cup {PyDict(<<KV(<<"a">>, v)>>) : v \in below}
            \cup {PyDict(<<KV(<<"B">>, v), KV(<<"a">>, PyInt(2))>>) : v \in below}
            \cup {PyList(<<v>>) : v \in below}
            \cup {PyList(<<PyInt(2), v>>) : v \in below}

FlatSiblings ==
    {PyDict(<<KV(<<"a">>, PyDict(<<KV(<<"a">>, PyInt(1))>>)),
              KV(<<"B">>, PyDict(<<KV(<<"a">>, PyInt(2))>>))>>),
     PyDict(<<KV(<<"A">>, PyInt(1)), KV(<<"a">>, PyInt(2))>>),
     PyDict(<<>>), PyList(<<>>),
     PyDict(<<KV(<<"a">>, PyDict(<<>>)), KV(<<"B">>, PyList(<<>>))>>)}

FlatInputs == NestedValues(MaxDepth) \cup FlatSiblings

FlatSeparators == {<<".">>, <<"_">>}

FlatLevels == {PyNone} \cup {PyInt(n) : n \in 0..MaxLevel}

FlatInit ==
    /\ flat_data \in FlatInputs
    /\ flat_opts \in [flatten : BOOLEAN, sep : FlatSeparators, max_level : FlatLevels]
    /\ flattened = NoResult
    /\ TypesIdle
    /\ InferIdle
    /\ PipeIdle
    /\ CallIdle
    /\ CastIdle
    /\ RegIdle

\* NormalizeJSON.normalize(flat_data, flatten, sep, max_level)
normalize ==
    /\ flattened = NoResult
    /\ flattened' = NormalizeJSONnormalize(flat_data, flat_opts.flatten,
                                           flat_opts.sep, flat_opts.max_level)
    /\ UNCHANGED <<flat_data, flat_opts, typeVars, inferVars, pipeVars, callVars, castVars, regVars>>

FlatNext == normalize

FlatSpec == FlatInit /\ [][FlatNext]_vars

-----------------------------------------------------------------------------
(* Specification of the registry: Init is the state after the import of    *)
(* core.utility.AdapterRegistry and core.Adapters.Converters; each action  *)
(* is one call, up to MaxCalls calls.                                      *)

RegInit ==
    /\ registry = <<>>
    /\ reg_call = [op |-> "import"]
    /\ reg_result = NoResult
    /\ calls = 0
    /\ TypesIdle
    /\ InferIdle
    /\ PipeIdle
    /\ CallIdle
    /\ CastIdle
    /\ FlatIdle

RegOthersUnchanged == UNCHANGED <<typeVars, inferVars, pipeVars, callVars, castVars, flatVars>>

\* register()
register ==
    /\ calls < MaxCalls
    /\ calls' = calls + 1
    /\ registry' = RegisterAdapters(registry)
    /\ reg_call' = [op |-> "register"]
    /\ reg_result' = Ok(PyNone)
    /\ RegOthersUnchanged

\* Registry.register(name, component, category)
Registry_register ==
    \E name \in RegNames, component \in Components, category \in RegCategories :
        /\ calls < MaxCalls
        /\ calls' = calls + 1
        /\ registry' = RegistryRegister(registry, name, component, category)
        /\ reg_call' = [op |-> "Registry.register", name |-> name,
                        component |-> component, category |-> category]
        /\ reg_result' = Ok(PyNone)
        /\ RegOthersUnchanged

\* Registry.get(name, category)
Registry_get ==
    \E name \in RegNames, category \in RegCategories :
        /\ calls < MaxCalls
        /\ calls' = calls + 1
        /\ reg_call' = [op |-> "Registry.get", name |-> name, category |-> category]
        /\ reg_result' = RegistryGet(registry, name, category)
        /\ UNCHANGED registry
        /\ RegOthersUnchanged

\* Registry.list_components(category)
Registry_list_components ==
    \E category \in RegCategories :
        /\ calls < MaxCalls
        /\ calls' = calls + 1
        /\ reg_call' = [op |-> "Registry.list_components", category |-> category]
        /\ reg_result' = Ok(RegistryListComponents(registry, category))
        /\ UNCHANGED registry
        /\ RegOthersUnchanged

\* Converter.xml_to_json(xml_data)
xml_to_json ==
    \E xml_data \in ConverterXmlTexts :
        /\ calls < MaxCalls
        /\ calls' = calls + 1
        /\ reg_call' = [op |-> "xml_to_json", xml_data |-> xml_data]
        /\ reg_result' = XmlToJson(registry, xml_data)
        /\ UNCHANGED registry
        /\ RegOthersUnchanged

\* Converter.json_to_xml(json_data)
json_to_xml ==
    \E json_data \in ConverterJsonInputs :
        /\ calls < MaxCalls
        /\ calls' = calls + 1
        /\ reg_call' = [op |-> "json_to_xml", json_data |-> json_data]
        /\ reg_result' = JsonToXml(registry, json_data)
        /\ UNCHANGED registry
        /\ RegOthersUnchanged

RegNext ==
    \/ register
    \/ Registry_register
    \/ Registry_get
    \/ Registry_list_components
    \/ xml_to_json
    \/ json_to_xml

RegSpec == RegInit /\ [][RegNext]_vars

-----------------------------------------------------------------------------
(* Properties of the adapters (PipeSpec).                                  *)

\* the values agree up to the text form of their scalars, sequences
\* position by position and mappings key by key
RECURSIVE SameValue(_, _)
SameValue(v, w) ==
    IF v.t = "list"
    THEN /\ w.t = "list"
         /\ Len(w.elems) = Len(v.elems)
         /\ \A i \in 1..Len(v.elems) : SameValue(v.elems[i], w.elems[i])
    ELSE IF v.t = "dict"
    THEN /\ w.t = "dict"
         /\ DictKeys(w) = DictKeys(v)
         /\ \A k \in DictKeys(v) : SameValue(DictGet(v, k), DictGet(w, k))
    ELSE /\ w.t \notin {"list", "dict"}
         /\ (v.t = "none") = (w.t = "none")
         /\ StrOf(v) = StrOf(w)

\* C1: for every canonical value returned by from_json, the chain to_xml ->
\* from_xml -> to_json reproduces the same canonical value and an equal
\* schema (a list field comes back as the same sequence, a struct field as
\* the same mapping); stated for the chains in which every call succeeds.
C1_RoundTrip ==
    (pc = "to_json" /\ json_out.ok) =>
        /\ SameValue(canonical.val.data, JsonLoads(json_out.val.text).val)
        /\ json_out.val.schema = canonical.val.schema

\* C3: from_json of a text holding a single object returns that object
\* itself, its own keys at the top level, with a Struct schema over exactly
\* those keys.
C3_SingleObject ==
    (pc # "start" /\ JsonLoads(json_text).ok /\ JsonLoads(json_text).val.t = "dict") =>
        /\ canonical.ok
        /\ canonical.val.data = JsonLoads(json_text).val
        /\ canonical.val.schema.kind = "Struct"
        /\ DOMAIN canonical.val.schema.fields = DictKeys(JsonLoads(json_text).val)

IsScalarList(v) ==
    /\ v.t = "list"
    /\ \A i \in 1..Len(v.elems) : v.elems[i].t \in {"int", "str"}

\* C9: to_xml emits a list-valued field as one element named after the field
\* key whose children are exactly one item element per list element, in list
\* order, each item carrying that element's serialized content; stated for
\* the fields of a single-root mapping that hold sequences of scalars.
C9_ListItems ==
    (pc \in {"to_xml", "from_xml", "to_json"} /\ xml.ok
       /\ Len(canonical.val.data.items) = 1
       /\ canonical.val.data.items[1].v.t = "dict") =>
        LET fields == canonical.val.data.items[1].v.items
            root == ETfromstring(xml.val).val
        IN \A i \in 1..Len(fields) :
              IsScalarList(fields[i].v) =>
                 /\ i <= Len(root.children)
                 /\ root.children[i].tag = fields[i].k
                 /\ Len(root.children[i].children) = Len(fields[i].v.elems)
                 /\ \A j \in 1..Len(fields[i].v.elems) :
                       root.children[i].children[j]
                         = Elem("item", PyStr(StrOf(fields[i].v.elems[j])), <<>>)

ChildTags(e) == {e.children[i].tag : i \in 1..Len(e.children)}

Occurrences(e, tag) == Cardinality({i \in 1..Len(e.children) : e.children[i].tag = tag})

\* C10: from_xml maps every element that has children, including the root,
\* to a mapping from child tag to parsed child value, a tag occurring more
\* than once mapping to the sequence of its occurrences; parsing the XML
\* produced for {"root": {"a": 1, "tags": ["x","y"]}} yields ["x","y"] under
\* the key tags. Stated for the root element.
C10_RootMapping ==
    (pc \in {"from_xml", "to_json"} /\ parsed.ok) =>
        LET root == ETfromstring(xml.val).val
            v == DictGet(parsed.val.data, root.tag)
        IN /\ Len(root.children) > 0 =>
                /\ v.t = "dict"
                /\ DictKeys(v) = ChildTags(root)
                /\ \A k \in ChildTags(root) :
                      Occurrences(root, k) > 1 =>
                         /\ DictGet(v, k).t = "list"
                         /\ Len(DictGet(v, k).elems) = Occurrences(root, k)
           /\ json_text = JsonDumps(TagsDoc) =>
                /\ v.t = "dict"
                /\ "tags" \in DictKeys(v)
                /\ SameValue(PyList(<<PyStr(<<"x">>), PyStr(<<"y">>)>>), DictGet(v, "tags"))

-----------------------------------------------------------------------------
(* Properties of inference (InferSpec).                                    *)

IsRecordList(v) ==
    /\ v.t = "list"
    /\ Len(v.elems) > 0
    /\ \A i \in 1..Len(v.elems) : v.elems[i].t = "dict"

\* the types observed for key k in the records that hold it
Observed(v, k) ==
    {InferSchema(DictGet(v.elems[i], k)) :
        i \in {j \in 1..Len(v.elems) : k \in DictKeys(v.elems[j])}}

\* C2: for every sequence of records infer_schema produces a struct whose
\* field names are the union of the keys of all records, so no record's keys
\* are lost, and a key that has one type in every record holding it has that
\* type; the struct is the schema itself or the element type of the list
\* schema.
C2_UnionOfKeys ==
    (inferredSchema.ok /\ IsRecordList(sample)) =>
        LET s == inferredSchema.val
            r == IF s.kind = "List" THEN s.inner_type ELSE s
            keys == UNION {DictKeys(sample.elems[i]) : i \in 1..Len(sample.elems)}
        IN /\ r.kind = "Struct"
           /\ DOMAIN r.fields = keys
           /\ \A k \in keys :
                 Cardinality(Observed(sample, k)) = 1 => r.fields[k] \in Observed(sample, k)

IsNullElement(v) == v.t = "none" \/ IsNaN(v)

NonNull(v) == {i \in 1..Len(v.elems) : ~IsNullElement(v.elems[i])}

\* C7: for every sequence with at least one non-Null element whose non-Null
\* elements all infer to the same type T, infer_schema returns List(T),
\* whatever the number and positions of the Null elements.
C7_NullsAbsorbed ==
    (inferredSchema.ok /\ sample.t = "list" /\ NonNull(sample) # {}
       /\ \A i, j \in NonNull(sample) :
             InferSchema(sample.elems[i]) = InferSchema(sample.elems[j])) =>
        \A i \in NonNull(sample) :
            inferredSchema.val = ListType(InferSchema(sample.elems[i]))

\* C7 happens: [1, None, 2] has been inferred
C7_Witness ==
    /\ inferredSchema.ok
    /\ sample = PyList(<<PyInt(1), PyNone, PyInt(2)>>)
    /\ inferredSchema.val = ListType(T("Integer"))

\* a string that parses fully as an integer: an optional sign and digits
IsIntegerText(s) ==
    LET b == IF Len(s) > 0 /\ s[1] \in {"+", "-"} THEN Tail(s) ELSE s
    IN Len(b) > 0 /\ AllDigits(b)

\* the kind the rules of C8 give a scalar
RuleKind(v) ==
    IF v.t = "none" THEN "NestedNull"
    ELSE IF v.t = "bool" THEN "Boolean"
    ELSE IF v.t = "int" THEN "Integer"
    ELSE IF v.t = "float" THEN (IF IsNaN(v) THEN "NumericNull" ELSE "Float")
    ELSE IF v.t = "decimal" THEN "Decimal"
    ELSE IF IsIntegerText(v.s) THEN "Integer"
    ELSE IF is_decimal(v.s) THEN "Decimal"
    ELSE IF is_datetime(v.s) THEN "Datetime"
    ELSE "String"

\* C8: infer_type classifies a scalar by the first matching rule: Null ->
\* generic Null; boolean -> Boolean; integer -> Integer; float -> Float,
\* NaN -> numeric Null; Decimal -> Decimal; a string that parses fully as an
\* integer -> Integer, else as a decimal -> Decimal, else matching
\* YYYY-MM-DD[ HH:MM:SS] -> Datetime, else String.
C8_ScalarRules ==
    (inferredType.ok /\ sample.t \in {"none", "bool", "int", "float", "decimal", "str"}) =>
        inferredType.val = T(RuleKind(sample))

-----------------------------------------------------------------------------
(* Properties of the type-level operations (TypesSpec).                    *)

\* C4: type equality is structural: two List types are equal iff their inner
\* types are equal, two Struct types iff their field maps are equal.
C4_StructuralEquality ==
    compared.ok => (compared.val <=> types[1] = types[2])

\* C5: unify is commutative and associative: unify([A,B]) = unify([B,A]) and
\* unify([unify([A,B]),C]) = unify([A,unify([B,C])]); the results are
\* compared the way the engine compares types, by variant.
C5_CommutativeAssociative ==
    unified.ok =>
        /\ TypeEq(unified.ab, unified.ba)
        /\ TypeEq(unified.ab_c, unified.a_bc)

\* C6 as stated: the generic Null is a two-sided identity of promote for
\* every type t, the Null variants included.
C6_TwoSidedIdentity ==
    (promoted.ok /\ types[2] = T("NestedNull")) =>
        /\ promoted.ab = Ok(types[1])
        /\ promoted.ba = Ok(types[1])

\* C6 amended: promote(genericNull, t) = t for every type t; promote(t,
\* genericNull) = t for every t that is not a Null variant, and is the
\* generic Null when t is a Null variant.
C6_IdentityUpToNull ==
    (promoted.ok /\ types[2] = T("NestedNull")) =>
        /\ promoted.ba = Ok(types[1])
        /\ types[1].kind \notin NullKinds => promoted.ab = Ok(types[1])
        /\ types[1].kind \in NullKinds => promoted.ab = Ok(T("NestedNull"))

\* C6 happens: a struct has been promoted with the generic Null
C6_Witness ==
    /\ promoted.ok
    /\ types[2] = T("NestedNull")
    /\ types[1].kind = "Struct"
    /\ promoted.ab = Ok(types[1])

-----------------------------------------------------------------------------
(* Properties of single calls (CallSpec).                                  *)

\* the tags of the elements an XML text holds
TagsIn(text) == {text[i].tag : i \in {j \in 1..Len(text) : text[j].tok \in {"open", "empty"}}}

\* C11: to_xml is all-or-nothing over the input's fields: for a mapping with
\* several top-level keys it either fails or returns XML that holds an element
\* for every top-level field; no field is silently missing.
C11_AllOrNothing ==
    (call = "to_xml" /\ arg.t = "dict" /\ Len(arg.items) > 1 /\ returned.ok) =>
        DictKeys(arg) \subseteq TagsIn(returned.val)

IsMappingSequence(v) ==
    /\ v.t = "list"
    /\ \A i \in 1..Len(v.elems) : v.elems[i].t = "dict"

WrongShape(v) == v.t # "dict" /\ ~IsMappingSequence(v)

\* C15: every failure inside to_json, to_xml, from_xml, to_file and from_file
\* (from_json is the body of from_file) reaches the caller as ConversionError:
\* no other error kind escapes, and an input of the wrong shape, a malformed
\* text or a file that cannot be read is never answered by a normal return.
C15_FailuresAreConversionErrors ==
    call \in {"to_json", "to_xml", "from_xml", "to_file", "from_file"} =>
        /\ returned.ok \/ returned.err = "ConversionError"
        /\ (call \in {"to_json", "to_xml", "to_file"} /\ WrongShape(arg)) => ~returned.ok
        /\ (call = "from_xml" /\ ~ETfromstring(xml_text).ok) => ~returned.ok
        /\ (call = "from_file" /\ ~OpenRead(fs, file_path).ok) => ~returned.ok
        /\ (call = "from_file" /\ OpenRead(fs, file_path).ok
              /\ ~JsonLoads(OpenRead(fs, file_path).val).ok) => ~returned.ok

-----------------------------------------------------------------------------
(* Properties of cast_value (CastSpec).                                    *)

\* the fields of the struct target that the mapping cast_arg holds
PresentFields == DOMAIN target.fields \cap DictKeys(cast_arg)

\* C13: cast of a mapping to a Struct target never fails because a field is
\* missing: when every field the value does hold casts to its field type,
\* the cast succeeds and the result holds None for every field of the target
\* that is absent from the value, whatever that field's type is.
C13_MissingFieldIsNull ==
    (/\ casted # NoResult
     /\ cast_arg.t = "dict"
     /\ target.kind = "Struct"
     /\ \A f \in PresentFields : cast_value(DictGet(cast_arg, f), target.fields[f]).ok) =>
        /\ casted.ok
        /\ \A f \in DOMAIN target.fields \ DictKeys(cast_arg) :
              DictGetOrNone(casted.val, f) = PyNone /\ f \in DictKeys(casted.val)

\* C14: whenever cast_value cannot convert the value to the target type it
\* fails with the cast error of the library (ConversionError, the only error
\* cast_value raises itself); no other error kind escapes.
C14_OnlyCastError ==
    (casted # NoResult /\ ~casted.ok) => casted.err = "ConversionError"

-----------------------------------------------------------------------------
(* Properties of the registry (RegSpec).                                   *)

\* C16: the adapter registry is an immutable lookup table: in every state
\* reachable after the import it maps "JSON" and "XML" to their adapters, so
\* a lookup of either name succeeds, and no step changes the registry.
C16_ImmutableRegistry ==
    /\ [](/\ RegistryGet(registry, "JSON", "adapters") = Ok("JSONAdapter")
          /\ RegistryGet(registry, "XML", "adapters") = Ok("XMLAdapter"))
    /\ [][registry' = registry]_registry

-----------------------------------------------------------------------------
(* Properties of unification and promotion (TypesSpec).                    *)

\* C17: unify of types that are all numeric but not all identical, with or
\* without a Null variant among them, returns Float.
C17_NumericToFloat ==
    (/\ unified.ok
     /\ {types[1].kind, types[2].kind} \subseteq NumericKinds
     /\ types[1].kind # types[2].kind) =>
        /\ unified.ab = T("Float")
        /\ unified.ba = T("Float")
        /\ IsNull(types[3]) => unified.abc = T("Float")

\* the inner types of the two lists that are not the generic Null
NonNullInners ==
    SelectSeq(<<types[1].inner_type, types[2].inner_type>>, LAMBDA t : t.kind # "NestedNull")

\* C18: unify of two List types returns List(u), u being the unification of
\* their inner types with Null inner types ignored, in either input order.
C18_ListsUnifyInner ==
    (unified.ok /\ types[1].kind = "List" /\ types[2].kind = "List") =>
        LET u == IF Len(NonNullInners) > 0 THEN UnifyTypes(NonNullInners)
                 ELSE T("NestedNull")
        IN unified.ab = ListType(u) /\ unified.ba = ListType(u)

RECURSIVE IsType(_)
IsType(t) ==
    IF t.kind = "List" THEN IsType(t.inner_type)
    ELSE IF t.kind = "Struct" THEN \A k \in DOMAIN t.fields : IsType(t.fields[k])
    ELSE t.kind \in ScalarKinds

\* a mix of non-Null types the rules of unification do not reconcile: several
\* kinds among them, not all of them numeric
Irreconcilable(ts) ==
    /\ \A t \in ts : ~IsNull(t)
    /\ \E t, w \in ts : t.kind # w.kind
    /\ \E t \in ts : t.kind \notin NumericKinds

\* C19: unify never fails: it returns a type for every non-empty sequence of
\* types, and String for an irreconcilable mix of non-Null types.
C19_FallbackString ==
    unified.ok =>
        /\ \A r \in {unified.ab, unified.ba, unified.ab_c, unified.a_bc, unified.abc} :
              IsType(r)
        /\ Irreconcilable({types[1], types[2]}) =>
              unified.ab = T("String") /\ unified.ba = T("String")
        /\ Irreconcilable({types[1], types[2], types[3]}) => unified.abc = T("String")

\* C19 happens: a List and a Struct have been unified to String
C19_Witness ==
    /\ unified.ok
    /\ types[1].kind = "List"
    /\ types[2].kind = "Struct"
    /\ unified.ab = T("String")
    /\ unified.ba = T("String")

NumericOrder == <<"Integer", "Float", "Decimal">>

TemporalOrder == <<"Time", "Date", "Datetime", "Duration">>

RankIn(order, k) == CHOOSE i \in 1..Len(order) : order[i] = k

\* the higher-ranked of two kinds of one precedence order
Higher(order, k1, k2) ==
    IF RankIn(order, k1) >= RankIn(order, k2) THEN k1 ELSE k2

\* C20: for two non-Null types of the same category promote returns the
\* higher-ranked of the two, independent of operand order: numeric Decimal >
\* Float > Integer, temporal Duration > Datetime > Date > Time.
C20_PromotePrecedence ==
    promoted.ok =>
        /\ {types[1].kind, types[2].kind} \subseteq NumericKinds =>
              /\ promoted.ab = Ok(T(Higher(NumericOrder, types[1].kind, types[2].kind)))
              /\ promoted.ba = promoted.ab
        /\ {types[1].kind, types[2].kind} \subseteq TemporalKinds =>
              /\ promoted.ab = Ok(T(Higher(TemporalOrder, types[1].kind, types[2].kind)))
              /\ promoted.ba = promoted.ab

\* C20 happens: Date and Datetime have been promoted to Datetime in both orders
C20_Witness ==
    /\ promoted.ok
    /\ types[1] = T("Date")
    /\ types[2] = T("Datetime")
    /\ promoted.ab = Ok(T("Datetime"))
    /\ promoted.ba = Ok(T("Datetime"))

\* C21: promote(Binary, Binary) returns Binary.
C21_BinaryStaysBinary ==
    (promoted.ok /\ types[1] = T("Binary") /\ types[2] = T("Binary")) =>
        promoted.ab = Ok(T("Binary"))

\* the category of a non-Null type
CategoryOf(t) ==
    IF t.kind \in NumericKinds THEN "numeric"
    ELSE IF t.kind \in TemporalKinds THEN "temporal"
    ELSE IF t.kind \in CategoricalKinds THEN "categorical"
    ELSE t.kind

\* the two types are lists whose inner types do not promote, or structs with
\* a shared field whose types do not promote
InnerFailure(t1, t2) ==
    \/ /\ t1.kind = "List" /\ t2.kind = "List"
       /\ ~PromoteTypes(t1.inner_type, t2.inner_type).ok
    \/ /\ t1.kind = "Struct" /\ t2.kind = "Struct"
       /\ \E k \in DOMAIN t1.fields \cap DOMAIN t2.fields :
             ~PromoteTypes(t1.fields[k], t2.fields[k]).ok

\* C22: promote fails with the promotion error of the library (DataTypeError,
\* the class promote_types raises where the design says IncompatibleTypesError)
\* and returns no type for every pair of non-Null types to which no rule
\* applies: types of different categories, List with Struct, a nested type
\* with a scalar; a failure on the inner types or on one shared field makes
\* the promote of the enclosing List or Struct fail.
C22_NoRuleFails ==
    (promoted.ok /\ ~IsNull(types[1]) /\ ~IsNull(types[2])) =>
        /\ CategoryOf(types[1]) # CategoryOf(types[2]) =>
              promoted.ab = Raise("DataTypeError") /\ promoted.ba = Raise("DataTypeError")
        /\ InnerFailure(types[1], types[2]) =>
              promoted.ab = Raise("DataTypeError") /\ promoted.ba = Raise("DataTypeError")

\* C22 happens: two structs sharing a field of Integer and of String type
\* have failed to promote
C22_Witness ==
    /\ promoted.ok
    /\ types[1].kind = "Struct"
    /\ types[2].kind = "Struct"
    /\ "a" \in DOMAIN types[1].fields \cap DOMAIN types[2].fields
    /\ types[1].fields["a"] = T("Integer")
    /\ types[2].fields["a"] = T("String")
    /\ promoted.ab = Raise("DataTypeError")

\* a Null variant stands for the category of t: the generic Null for any
\* category, the others for their own
NullMatches(n, t) ==
    \/ n.kind = "NestedNull"
    \/ t.kind = "NestedNull"
    \/ n.kind = "NumericNull" /\ t.kind \in NumericKinds \cup {"NumericNull"}
    \/ n.kind = "TemporalNull" /\ t.kind \in TemporalKinds \cup {"TemporalNull"}
    \/ n.kind = "CategoricalNull" /\ t.kind \in CategoricalKinds \cup {"CategoricalNull"}

RECURSIVE StructurallyCompatible(_, _)
\* same kind, or one side the Null of the matching category, or two lists
\* (two structs) whose inner types (shared fields) are compatible in turn
StructurallyCompatible(t, u) ==
    IF IsNull(t) THEN NullMatches(t, u)
    ELSE IF IsNull(u) THEN NullMatches(u, t)
    ELSE IF t.kind = "List" /\ u.kind = "List"
         THEN StructurallyCompatible(t.inner_type, u.inner_type)
    ELSE IF t.kind = "Struct" /\ u.kind = "Struct"
         THEN \A k \in DOMAIN t.fields \cap DOMAIN u.fields :
                 StructurallyCompatible(t.fields[k], u.fields[k])
    ELSE t.kind = u.kind

\* C23: is_compatible answers true exactly for two types of the same kind,
\* for a Null of the matching category on either side (the generic Null
\* matching anything) and for two lists or two structs with recursively
\* compatible inner structures, and answers the same whichever of the two
\* types is the receiver.
C23_CompatibleSymmetric ==
    compatible.ok =>
        /\ compatible.ab <=> StructurallyCompatible(types[1], types[2])
        /\ compatible.ab <=> compatible.ba

\* a timedelta of the given number of seconds
PyDuration(seconds) == [t |-> "timedelta", seconds |-> seconds]

\* the duration an HH:MM:SS text denotes
DurationOfText(s) ==
    LET p == Split(s, ":")
    IN PyDuration(DigitsToNat(p[1]) * 3600 + DigitsToNat(p[2]) * 60 + DigitsToNat(p[3]))

\* C24: the cast of a string of the form HH:MM:SS to the Duration target
\* succeeds and returns the duration of HH hours, MM minutes and SS seconds.
C24_DurationParses ==
    (casted # NoResult /\ target = T("Duration")
        /\ cast_arg.t = "str" /\ IsTimeText(cast_arg.s)) =>
        casted = Ok(DurationOfText(cast_arg.s))

\* the number of separators in a flattened key
CountSep(key, sep) == Cardinality({i \in 1..Len(key) : key[i] = sep[1]})

\* every key of a flattened mapping was reached within m levels
KeysWithin(d, sep, m) ==
    \A i \in 1..Len(d.items) : CountSep(d.items[i].k, sep) <= m

\* C25: flatten with max_depth = m stops descending at depth m on every
\* branch: nothing located more than m levels below the top-level mapping is
\* expanded into keys, through sequences as well, so that every key of the
\* result joins at most m + 1 names and indexes.
C25_FlattenStopsAtDepth ==
    (flattened.ok /\ flat_opts.flatten /\ flat_opts.max_level.t = "int") =>
        IF flat_data.t = "dict"
        THEN KeysWithin(flattened.val, flat_opts.sep, flat_opts.max_level.n)
        ELSE \A i \in 1..Len(flattened.val.elems) :
                KeysWithin(flattened.val.elems[i], flat_opts.sep, flat_opts.max_level.n)

\* what from_xml returned for the i-th field of the root mapping: the entry
\* under the field's key, or the i-th parsed child where the children of the
\* root came back as a sequence
FieldBack(back, fields, i) ==
    IF back.t = "dict" /\ fields[i].k \in DictKeys(back) THEN DictGet(back, fields[i].k)
    ELSE IF back.t = "list" /\ i <= Len(back.elems) THEN back.elems[i]
    ELSE PyNone

\* C26: a list-valued field round-trips through to_xml then from_xml as a
\* sequence of the same length for every list length, the list of exactly
\* one element and the empty list included; it never comes back as a scalar,
\* a mapping or Null. Stated for the fields of a single-root mapping.
C26_ListFieldRoundTrip ==
    (pc \in {"from_xml", "to_json"} /\ parsed.ok
       /\ Len(canonical.val.data.items) = 1
       /\ canonical.val.data.items[1].v.t = "dict") =>
        LET root == canonical.val.data.items[1]
            fields == root.v.items
            back == IF root.k \in DictKeys(parsed.val.data)
                    THEN DictGet(parsed.val.data, root.k) ELSE PyNone
        IN \A i \in 1..Len(fields) :
              fields[i].v.t = "list" =>
                 /\ FieldBack(back, fields, i).t = "list"
                 /\ Len(FieldBack(back, fields, i).elems) = Len(fields[i].v.elems)

RECURSIVE SameShape(_, _)
\* the same sequence lengths and the same mapping keys, at every level
SameShape(v, w) ==
    IF v.t = "list"
    THEN /\ w.t = "list"
         /\ Len(w.elems) = Len(v.elems)
         /\ \A i \in 1..Len(v.elems) : SameShape(v.elems[i], w.elems[i])
    ELSE IF v.t = "dict"
    THEN /\ w.t = "dict"
         /\ DictKeys(w) = DictKeys(v)
         /\ \A k \in DictKeys(v) : SameShape(DictGet(v, k), DictGet(w, k))
    ELSE w.t \notin {"list", "dict"}

\* C27: every value casts to its own inferred schema: for every canonical
\* value v for which infer_schema(v) returns a type T, cast_value(v, T)
\* succeeds and returns a value of the same shape (same sequence lengths,
\* same mapping keys).
C27_CastToInferred ==
    (inferredSchema.ok /\ recast # NoResult) =>
        /\ recast.ok
        /\ SameShape(sample, recast.val)

\* C28: unify of a sequence consisting only of Null variants returns a Null
\* variant, also when the Nulls belong to different categories (the generic
\* Null with the numeric Null); it never returns String for such input.
C28_NullsUnifyToNull ==
    unified.ok =>
        /\ (IsNull(types[1]) /\ IsNull(types[2])) => IsNull(unified.ab)
        /\ (IsNull(types[1]) /\ IsNull(types[2]) /\ IsNull(types[3])) => IsNull(unified.abc)

\* C29: to_file serializes before it touches the file: whenever the
\* serialization of the data fails, to_file fails with ConversionError and
\* the target file is neither created nor truncated nor modified; a file is
\* only ever written with the complete serialized text.
C29_SerializeBeforeWrite ==
    [][/\ (call = "none" /\ call' = "to_file") =>
             /\ ~ToJson(arg).ok => (returned' = Raise("ConversionError") /\ fs' = fs)
             /\ fs' # fs =>
                   /\ ToJson(arg).ok
                   /\ fs' = [fs EXCEPT ![file_path'] = File(ToJson(arg).val.text)]
       /\ (call = "none" /\ call' = "JsonIO.to_file") =>
             /\ ~JsonIOToJson(arg).ok => (returned' = Raise("ConversionError") /\ fs' = fs)
             /\ fs' # fs =>
                   /\ JsonIOToJson(arg).ok
                   /\ fs' = [fs EXCEPT ![file_path'] = File(JsonIOToJson(arg).val)]]_vars

\* C29 happens: to_file was called on data that does not serialize, with the
\* path of a file that holds a document, and the document is still there
C29_Witness ==
    /\ call = "to_file"
    /\ ~ToJson(arg).ok
    /\ returned = Raise("ConversionError")
    /\ file_path = "data.json"
    /\ fs["data.json"] = File(JsonDumps(AnnDoc))

\* C30: JSON input normalization is idempotent: the JSON adapter's
\* normalize_input applied to its own output returns the same value, so
\* to_json of a canonical value returned by from_json serializes that very
\* value with an equal schema, and from_json of the text yields the same
\* canonical value and an equal schema.
C30_NormalizeIdempotent ==
    (pc \in {"reserialize", "reparse"}) =>
        /\ JsonNormalizeInput(canonical.val.data) = Ok(canonical.val.data)
        /\ reserialized.ok
        /\ reserialized.val.text = JsonDumps(canonical.val.data)
        /\ reserialized.val.schema = canonical.val.schema
        /\ pc = "reparse" =>
              /\ reparsed.ok
              /\ reparsed.val.data = canonical.val.data
              /\ reparsed.val.schema = canonical.val.schema

\* C30 happens: an object of two keys, wrapped by from_json as the one record
\* under root, was serialized again and parsed again
C30_Witness ==
    /\ pc = "reparse"
    /\ json_text = JsonDumps(AnnDoc)
    /\ canonical.val.data = PyDict(<<KV("root", PyList(<<AnnDoc>>))>>)
    /\ reparsed.ok
    /\ reparsed.val.data = canonical.val.data

====
